---------------------------- MODULE Spec2Model ----------------------------
(* A model of the dcr DICOM viewer: the tag forest built by the loader     *)
(* (src/src/dicom.rs) and the interactive state machine of App             *)
(* (src/src/app.rs): flattening by expansion state, path-addressed         *)
(* expand/collapse, the root-level search filter and the cursor.           *)
EXTENDS Integers, Sequences, FiniteSets, TLC

(***************************************************************************)
(* Bounds of the model.                                                    *)
(***************************************************************************)
\* the largest number of root elements of a loaded file
MaxRoots == 2
\* the longest search query typed
MaxQuery == 2

(***************************************************************************)
(* Option<T>: None is the empty sequence, Some(x) the one-element one.     *)
(***************************************************************************)
None == << >>
Some(x) == << x >>
IsSome(o) == o # << >>
Unwrap(o) == o[1]

(***************************************************************************)
(* Strings that the code searches in are sequences of characters.          *)
(***************************************************************************)
Uppers == << "A","B","C","D","E","F","G","H","I","J","K","L","M",
             "N","O","P","Q","R","S","T","U","V","W","X","Y","Z" >>
Lowers == << "a","b","c","d","e","f","g","h","i","j","k","l","m",
             "n","o","p","q","r","s","t","u","v","w","x","y","z" >>

\* char::to_lowercase on the ASCII range
to_lowercase_char(c) ==
    IF \E i \in 1..Len(Uppers) : Uppers[i] = c
    THEN Lowers[CHOOSE i \in 1..Len(Uppers) : Uppers[i] = c]
    ELSE c

\* str::to_lowercase
to_lowercase(s) == [i \in 1..Len(s) |-> to_lowercase_char(s[i])]

\* str::contains(&str): the needle occurs as a contiguous substring
contains(hay, needle) ==
    \E k \in 0..(Len(hay) - Len(needle)) :
        SubSeq(hay, k + 1, k + Len(needle)) = needle

(***************************************************************************)
(* The loader: DicomTag records as extract_tags builds them.               *)
(***************************************************************************)
DigitChars == << "0","1","2","3","4","5","6","7","8","9" >>

\* format!("({:04X},{:04X})", group, element), the digits given as characters
TagId(group, element) == << "(" >> \o group \o << "," >> \o element \o << ")" >>

\* format!("Item #{}", item_idx + 1)
ItemLabel(item_idx) == << "I","t","e","m"," ","#" >> \o << DigitChars[item_idx + 2] >>

\* a primitive element: no children, not expandable, collapsed
PrimitiveTag(tag, name, vr, value, depth) ==
    [ tag |-> tag, name |-> name, vr |-> vr, value |-> value, depth |-> depth,
      is_expandable |-> FALSE, is_expanded |-> FALSE, children |-> << >>,
      diff_status |-> "None" ]

\* a sequence element: its children are the item headers
SequenceTag(tag, name, depth, items) ==
    [ tag |-> tag, name |-> name, vr |-> "SQ",
      value |-> "<Sequence with " \o ToString(Len(items)) \o " item(s)>",
      depth |-> depth,
      is_expandable |-> (items # << >>), is_expanded |-> FALSE, children |-> items,
      diff_status |-> "None" ]

\* the header of sequence item number item_idx (0-based) holding item_children
ItemTag(item_idx, depth, item_children) ==
    [ tag |-> ItemLabel(item_idx), name |-> << >>, vr |-> "",
      value |-> "<" \o ToString(Len(item_children)) \o " element(s)>",
      depth |-> depth,
      is_expandable |-> (item_children # << >>), is_expanded |-> FALSE,
      children |-> item_children, diff_status |-> "None" ]

\* dictionary aliases of the elements used
PatientName == << "P","a","t","i","e","n","t","N","a","m","e" >>
ReferencedImageSequence ==
    << "R","e","f","e","r","e","n","c","e","d","I","m","a","g","e",
       "S","e","q","u","e","n","c","e" >>
ReferencedInstanceSequence ==
    << "R","e","f","e","r","e","n","c","e","d","I","n","s","t","a","n","c","e",
       "S","e","q","u","e","n","c","e" >>
ReferencedSOPClassUID ==
    << "R","e","f","e","r","e","n","c","e","d","S","O","P","C","l","a","s","s","U","I","D" >>

\* (0010,0010) PatientName, a primitive root
RootPatientName ==
    PrimitiveTag(TagId(<<"0","0","1","0">>, <<"0","0","1","0">>), PatientName,
                 "PN", "Doe^John", 0)

\* (0015,0010), a private primitive root the dictionary has no alias for
RootPrivate ==
    PrimitiveTag(TagId(<<"0","0","1","5">>, <<"0","0","1","0">>), << >>,
                 "LO", "ACME", 0)

\* (0008,1140) ReferencedImageSequence with one item that has no elements
RootShallowSeq ==
    SequenceTag(TagId(<<"0","0","0","8">>, <<"1","1","4","0">>),
                ReferencedImageSequence, 0,
                << ItemTag(0, 1, << >>) >>)

\* (0008,114A) ReferencedInstanceSequence: item 1 holds (0008,1150), item 2
\* is empty
RootDeepSeq ==
    SequenceTag(TagId(<<"0","0","0","8">>, <<"1","1","4","A">>),
                ReferencedInstanceSequence, 0,
                << ItemTag(0, 1,
                     << PrimitiveTag(TagId(<<"0","0","0","8">>, <<"1","1","5","0">>),
                                     ReferencedSOPClassUID, "UI", "1.2.840", 2) >>),
                   ItemTag(1, 1, << >>) >>)

RootTemplates == { RootPatientName, RootPrivate, RootShallowSeq, RootDeepSeq }

\* the forests a file can load to: up to MaxRoots distinct root elements
LoadedForests ==
    UNION { { f \in [1..n -> RootTemplates] :
                \A i, j \in 1..n : i # j => f[i].tag # f[j].tag } : n \in 0..MaxRoots }

\* the characters the keyboard sends while searching
KeyChars == { "N", "a", "5" }

(***************************************************************************)
(* The state of App.                                                       *)
(***************************************************************************)
VARIABLES
    tags,           \* App.tags: the flattened view
    all_tags,       \* App.all_tags: the unfiltered forest
    filtered_tags,  \* App.filtered_tags: Option of the filtered roots
    selected,       \* App.table_state.selected(): Option of a row index
    should_quit,    \* App.should_quit
    search_mode,    \* App.search_mode
    search_query,   \* App.search_query
    last,           \* history: the kind of the last event an arm acted on
    pre_expand,     \* history: Option of the view and row of the last expansion,
                    \* kept while only the cursor moves, and marked done by the
                    \* collapse of that row
    baseline_tags,  \* compare_dicom_files: the roots loaded from the baseline file
    modified_tags,  \* compare_dicom_files: the roots loaded from the modified file
    result_tags,    \* compare_dicom_files: Option of the vector it returns
    obj,            \* validate_type1_fields: the object opened from the file
    validation,     \* validate_type1_fields: Option of the result it returns
    call,           \* a function run on its own: Option of its name and arguments
    ret,            \* Option of the value that function returned
    pc,             \* the position of main
    failed          \* history: the fallible calls of main that returned Err

\* what lies outside the App, which no event of the App touches
file_vars == << baseline_tags, modified_tags, result_tags, obj, validation,
                call, ret, pc, failed >>

vars == << tags, all_tags, filtered_tags, selected, should_quit,
           search_mode, search_query, last, pre_expand,
           baseline_tags, modified_tags, result_tags, obj, validation,
           call, ret, pc, failed >>

(***************************************************************************)
(* The projector.                                                          *)
(***************************************************************************)
\* a projector that descends into collapsed nodes too
RECURSIVE collect_all_tags(_)
collect_all_tags(ts) ==
    IF ts = << >> THEN << >>
    ELSE << Head(ts) >> \o collect_all_tags(Head(ts).children)
                       \o collect_all_tags(Tail(ts))

RECURSIVE collect_visible_tags(_)
collect_visible_tags(ts) ==
    IF ts = << >> THEN << >>
    ELSE LET tag == Head(ts) IN
         << tag >>
         \o (IF tag.is_expanded /\ tag.children # << >>
             THEN collect_visible_tags(tag.children) ELSE << >>)
         \o collect_visible_tags(Tail(ts))

build_visible_tags_from(ts) == collect_visible_tags(ts)

\* the forest driving the view
active_of(filtered, all) == IF IsSome(filtered) THEN Unwrap(filtered) ELSE all

\* the forest driving the view taken to be the full forest, filter or not
active_tags_unfiltered == all_tags

active_tags == active_of(filtered_tags, all_tags)

\* a rebuild that always flattens the unfiltered forest
rebuild_from_all_tags(filtered, all) == build_visible_tags_from(all)

\* the value rebuild_visible_tags stores in App.tags
rebuild_visible_tags(filtered, all) == build_visible_tags_from(active_of(filtered, all))

(***************************************************************************)
(* The path locator.  find_path_to_index at iteration i (1-based) of its   *)
(* loop over ts; the result carries the counter and the path as the code   *)
(* leaves them.                                                            *)
(***************************************************************************)
\* a traversal that leaves the index of a subtree on the path when the row
\* was not found in it
RECURSIVE find_path_without_pop(_, _, _, _, _)
find_path_without_pop(ts, i, target_idx, current_idx, path) ==
    IF i > Len(ts)
    THEN [ found |-> FALSE, current_idx |-> current_idx, path |-> path ]
    ELSE IF current_idx = target_idx
    THEN [ found |-> TRUE, current_idx |-> current_idx, path |-> Append(path, i - 1) ]
    ELSE LET tag == ts[i] IN
         IF tag.is_expanded /\ tag.children # << >>
         THEN LET r == find_path_without_pop(tag.children, 1, target_idx,
                                             current_idx + 1, Append(path, i - 1)) IN
              IF r.found THEN r
              ELSE find_path_without_pop(ts, i + 1, target_idx, r.current_idx, r.path)
         ELSE find_path_without_pop(ts, i + 1, target_idx, current_idx + 1, path)

\* a traversal that goes down into collapsed nodes as well
RECURSIVE find_path_ignoring_flags(_, _, _, _, _)
find_path_ignoring_flags(ts, i, target_idx, current_idx, path) ==
    IF i > Len(ts)
    THEN [ found |-> FALSE, current_idx |-> current_idx, path |-> path ]
    ELSE IF current_idx = target_idx
    THEN [ found |-> TRUE, current_idx |-> current_idx, path |-> Append(path, i - 1) ]
    ELSE LET tag == ts[i] IN
         IF tag.children # << >>
         THEN LET r == find_path_ignoring_flags(tag.children, 1, target_idx,
                                                current_idx + 1, Append(path, i - 1)) IN
              IF r.found THEN r
              ELSE find_path_ignoring_flags(ts, i + 1, target_idx, r.current_idx, path)
         ELSE find_path_ignoring_flags(ts, i + 1, target_idx, current_idx + 1, path)

RECURSIVE find_path_to_index(_, _, _, _, _)
find_path_to_index(ts, i, target_idx, current_idx, path) ==
    IF i > Len(ts)
    THEN [ found |-> FALSE, current_idx |-> current_idx, path |-> path ]
    ELSE IF current_idx = target_idx
    THEN [ found |-> TRUE, current_idx |-> current_idx, path |-> Append(path, i - 1) ]
    ELSE LET tag == ts[i] IN
         IF tag.is_expanded /\ tag.children # << >>
         THEN LET r == find_path_to_index(tag.children, 1, target_idx,
                                          current_idx + 1, Append(path, i - 1)) IN
              IF r.found THEN r
              ELSE find_path_to_index(ts, i + 1, target_idx, r.current_idx, path)
         ELSE find_path_to_index(ts, i + 1, target_idx, current_idx + 1, path)

\* a locator that takes the row for a root position
build_path_to_tag_roots(ts, visible_idx) == << visible_idx >>

build_path_to_tag(ts, visible_idx) ==
    find_path_to_index(ts, 1, visible_idx, 0, << >>).path

(***************************************************************************)
(* The expansion controller.                                               *)
(***************************************************************************)
\* a mutation that writes the flag to every node along the path
RECURSIVE set_expanded_along_path(_, _, _)
set_expanded_along_path(ts, path, expanded) ==
    IF path = << >> THEN ts
    ELSE LET idx == path[1] IN
         IF idx >= Len(ts) THEN ts
         ELSE [ ts EXCEPT ![idx + 1] =
                    [ @ EXCEPT !.is_expanded = expanded,
                               !.children = set_expanded_along_path(
                                                @, Tail(path), expanded) ] ]

\* a mutation that, when the next index is out of range, writes the flag
\* to the last node it could reach
RECURSIVE set_expanded_partially(_, _, _)
set_expanded_partially(ts, path, expanded) ==
    IF path = << >> THEN ts
    ELSE LET idx == path[1] IN
         IF idx >= Len(ts) THEN ts
         ELSE IF Len(path) = 1 \/ path[2] >= Len(ts[idx + 1].children)
         THEN [ ts EXCEPT ![idx + 1].is_expanded = expanded ]
         ELSE [ ts EXCEPT ![idx + 1].children =
                    set_expanded_partially(ts[idx + 1].children, Tail(path), expanded) ]

\* a mutation that, when it collapses a node, also empties its children
RECURSIVE set_expanded_dropping_children(_, _, _)
set_expanded_dropping_children(ts, path, expanded) ==
    IF path = << >> THEN ts
    ELSE LET idx == path[1] IN
         IF idx >= Len(ts) THEN ts
         ELSE IF Len(path) = 1
         THEN [ ts EXCEPT ![idx + 1].is_expanded = expanded,
                          ![idx + 1].children = IF expanded THEN @ ELSE << >> ]
         ELSE [ ts EXCEPT ![idx + 1].children =
                    set_expanded_dropping_children(ts[idx + 1].children,
                                                   Tail(path), expanded) ]

RECURSIVE set_expanded_in_tree(_, _, _)
set_expanded_in_tree(ts, path, expanded) ==
    IF path = << >> THEN ts
    ELSE LET idx == path[1] IN
         IF idx >= Len(ts) THEN ts
         ELSE IF Len(path) = 1
         THEN [ ts EXCEPT ![idx + 1].is_expanded = expanded ]
         ELSE [ ts EXCEPT ![idx + 1].children =
                    set_expanded_in_tree(ts[idx + 1].children, Tail(path), expanded) ]

\* a write that always lands in the full forest
WriteActive_to_all(new) ==
    /\ filtered_tags' = filtered_tags
    /\ all_tags' = new

\* active_tags_mut: the forest a mutation is written to
WriteActive(new) ==
    /\ filtered_tags' = IF IsSome(filtered_tags) THEN Some(new) ELSE filtered_tags
    /\ all_tags' = IF IsSome(filtered_tags) THEN all_tags ELSE new

\* an expansion that leaves the stored view as it was
expand_selected_without_rebuild ==
    IF /\ IsSome(selected)
       /\ Unwrap(selected) < Len(tags)
       /\ tags[Unwrap(selected) + 1].is_expandable
       /\ ~tags[Unwrap(selected) + 1].is_expanded
    THEN LET path == build_path_to_tag(active_tags, Unwrap(selected)) IN
         /\ WriteActive(set_expanded_in_tree(active_tags, path, TRUE))
         /\ tags' = tags
         /\ selected' = selected
    ELSE UNCHANGED << tags, all_tags, filtered_tags, selected >>

\* an expansion that does not ask whether the row is expandable
expand_selected_any_row ==
    IF /\ IsSome(selected)
       /\ Unwrap(selected) < Len(tags)
       /\ ~tags[Unwrap(selected) + 1].is_expanded
    THEN LET path == build_path_to_tag(active_tags, Unwrap(selected)) IN
         /\ WriteActive(set_expanded_in_tree(active_tags, path, TRUE))
         /\ tags' = rebuild_visible_tags(filtered_tags', all_tags')
         /\ selected' = selected
    ELSE UNCHANGED << tags, all_tags, filtered_tags, selected >>

expand_selected ==
    IF /\ IsSome(selected)
       /\ Unwrap(selected) < Len(tags)
       /\ tags[Unwrap(selected) + 1].is_expandable
       /\ ~tags[Unwrap(selected) + 1].is_expanded
    THEN LET path == build_path_to_tag(active_tags, Unwrap(selected)) IN
         /\ WriteActive(set_expanded_in_tree(active_tags, path, TRUE))
         /\ tags' = rebuild_visible_tags(filtered_tags', all_tags')
         /\ selected' = selected
    ELSE UNCHANGED << tags, all_tags, filtered_tags, selected >>

\* a backward scan that also stops at an expanded sibling of the same depth
RECURSIVE scan_for_parent_le(_, _, _)
scan_for_parent_le(view, i, current_depth) ==
    IF i < 0 THEN -1
    ELSE IF view[i + 1].depth <= current_depth /\ view[i + 1].is_expanded THEN i
    ELSE scan_for_parent_le(view, i - 1, current_depth)

\* a scan that stops only at an expanded row of depth 0
RECURSIVE scan_for_parent_outermost(_, _, _)
scan_for_parent_outermost(view, i, current_depth) ==
    IF i < 0 THEN -1
    ELSE IF view[i + 1].depth = 0 /\ view[i + 1].is_expanded THEN i
    ELSE scan_for_parent_outermost(view, i - 1, current_depth)

\* the row the backward scan of collapse_parent stops at, or -1
RECURSIVE scan_for_parent(_, _, _)
scan_for_parent(view, i, current_depth) ==
    IF i < 0 THEN -1
    ELSE IF view[i + 1].depth < current_depth /\ view[i + 1].is_expanded THEN i
    ELSE scan_for_parent(view, i - 1, current_depth)

\* a collapse that, on a row of depth 0, collapses that row itself
collapse_parent_or_self ==
    IF /\ IsSome(selected)
       /\ Unwrap(selected) < Len(tags)
    THEN LET i == IF tags[Unwrap(selected) + 1].depth > 0
                  THEN scan_for_parent(tags, Unwrap(selected) - 1,
                                       tags[Unwrap(selected) + 1].depth)
                  ELSE Unwrap(selected)
             path == build_path_to_tag(active_tags, i) IN
         /\ WriteActive(set_expanded_in_tree(active_tags, path, FALSE))
         /\ tags' = rebuild_visible_tags(filtered_tags', all_tags')
         /\ selected' = Some(i)
    ELSE UNCHANGED << tags, all_tags, filtered_tags, selected >>

collapse_parent ==
    IF /\ IsSome(selected)
       /\ Unwrap(selected) < Len(tags)
       /\ tags[Unwrap(selected) + 1].depth > 0
       /\ scan_for_parent(tags, Unwrap(selected) - 1,
                          tags[Unwrap(selected) + 1].depth) >= 0
    THEN LET i == scan_for_parent(tags, Unwrap(selected) - 1,
                                  tags[Unwrap(selected) + 1].depth)
             path == build_path_to_tag(active_tags, i) IN
         /\ WriteActive(set_expanded_in_tree(active_tags, path, FALSE))
         /\ tags' = rebuild_visible_tags(filtered_tags', all_tags')
         /\ selected' = Some(i)
    ELSE UNCHANGED << tags, all_tags, filtered_tags, selected >>

(***************************************************************************)
(* The cursor.                                                             *)
(***************************************************************************)
Min(a, b) == IF a < b THEN a ELSE b

\* usize::saturating_sub
saturating_sub(a, b) == IF a < b THEN 0 ELSE a - b

\* Option::unwrap_or
unwrap_or(o, d) == IF IsSome(o) THEN Unwrap(o) ELSE d

\* a cursor move that wraps past the last row to the top of the view
scroll_down_wrapping(amount) ==
    IF tags = << >> THEN selected
    ELSE Some((unwrap_or(selected, 0) + amount) % Len(tags))

scroll_down(amount) ==
    IF tags = << >> THEN selected
    ELSE Some(Min(unwrap_or(selected, 0) + amount, saturating_sub(Len(tags), 1)))

scroll_up(amount) ==
    IF tags = << >> THEN selected
    ELSE Some(saturating_sub(unwrap_or(selected, 0), amount))

\* a reset that keeps the old row when it still fits the new view
reset_selection_clamped(view) ==
    IF view = << >> THEN None
    ELSE Some(Min(unwrap_or(selected, 0), Len(view) - 1))

\* the selection reset_selection leaves for a view
reset_selection(view) == IF view = << >> THEN None ELSE Some(0)

(***************************************************************************)
(* The search filter.                                                      *)
(***************************************************************************)
\* a match that compares the fields as stored, without lower-casing them
matches_query_as_stored(tag, query) ==
    \/ contains(tag.tag, query)
    \/ contains(tag.name, query)

\* the closure of filter_tags: does a root match the lower-cased query
matches_query(tag, query) ==
    \/ contains(to_lowercase(tag.tag), query)
    \/ contains(to_lowercase(tag.name), query)

\* the roots filter_tags keeps for a non-empty query
filter_roots(all, search) ==
    LET query == to_lowercase(search) IN
    SelectSeq(all, LAMBDA tag : matches_query(tag, query))

\* a filter applied to the roots that drive the view, not to the full forest
filter_tags_cumulative(query) ==
    /\ filtered_tags' = IF query = << >> THEN None
                        ELSE Some(filter_roots(active_tags, query))
    /\ all_tags' = all_tags
    /\ tags' = rebuild_visible_tags(filtered_tags', all_tags')
    /\ selected' = reset_selection(tags')

\* a filter that is dropped when no root matches the query
filter_tags_dropped_when_empty(query) ==
    /\ filtered_tags' = IF query = << >> \/ filter_roots(all_tags, query) = << >>
                        THEN None
                        ELSE Some(filter_roots(all_tags, query))
    /\ all_tags' = all_tags
    /\ tags' = rebuild_visible_tags(filtered_tags', all_tags')
    /\ selected' = reset_selection(tags')

\* filter_tags, with the query already edited
filter_tags(query) ==
    /\ filtered_tags' = IF query = << >> THEN None
                        ELSE Some(filter_roots(all_tags, query))
    /\ all_tags' = all_tags
    /\ tags' = rebuild_visible_tags(filtered_tags', all_tags')
    /\ selected' = reset_selection(tags')

\* a clearing of the filter that leaves the stored view as it is
clear_filter_stale_view ==
    /\ search_query' = << >>
    /\ filtered_tags' = None
    /\ all_tags' = all_tags
    /\ tags' = tags
    /\ selected' = reset_selection(tags')

\* a clearing of the filter that first writes the roots of the filtered
\* copy back over the roots of the full forest with their identifiers
clear_filter_writing_back ==
    /\ search_query' = << >>
    /\ filtered_tags' = None
    /\ all_tags' =
          [ i \in 1..Len(all_tags) |->
              LET same == { k \in 1..Len(active_tags) :
                               active_tags[k].tag = all_tags[i].tag } IN
              IF same = { } THEN all_tags[i]
              ELSE active_tags[CHOOSE k \in same : TRUE] ]
    /\ tags' = rebuild_visible_tags(filtered_tags', all_tags')
    /\ selected' = reset_selection(tags')

\* the filter removed and the full forest shown again
clear_filter ==
    /\ search_query' = << >>
    /\ filtered_tags' = None
    /\ all_tags' = all_tags
    /\ tags' = rebuild_visible_tags(filtered_tags', all_tags')
    /\ selected' = reset_selection(tags')

\* the file functions are not running: their locals are empty
NoFileFunction ==
    /\ baseline_tags = << >>
    /\ modified_tags = << >>
    /\ result_tags = None
    /\ obj = << >>
    /\ validation = None
    /\ call = None
    /\ ret = None
    /\ failed = { }

(***************************************************************************)
(* The initial state: App::new_with_diff on a loaded forest.               *)
(***************************************************************************)
Init ==
    /\ all_tags \in LoadedForests
    /\ tags = build_visible_tags_from(all_tags)
    /\ filtered_tags = None
    /\ selected = (IF tags # << >> THEN Some(0) ELSE None)
    /\ should_quit = FALSE
    /\ search_mode = FALSE
    /\ search_query = << >>
    /\ last = "new"
    /\ pre_expand = None
    /\ NoFileFunction
    /\ pc = "run_app"

(***************************************************************************)
(* handle_events: one action per arm.  run_app leaves its loop once        *)
(* should_quit is set, so no event is handled after that.                  *)
(***************************************************************************)
Running == ~should_quit

\* history: the record of the last expansion survives a cursor move until
\* that row has been collapsed again
KeepExpansionHistory ==
    pre_expand' = IF IsSome(pre_expand) /\ ~Unwrap(pre_expand).done
                  THEN pre_expand ELSE None

\* an Esc arm that does not look at the mode first: with nothing typed it
\* quits, as the normal-mode arm does
SearchEsc_as_normal ==
    /\ Running /\ search_mode
    /\ UNCHANGED file_vars
    /\ IF search_query = << >>
       THEN /\ should_quit' = TRUE
            /\ UNCHANGED << tags, all_tags, filtered_tags, selected,
                            search_query, search_mode >>
       ELSE /\ clear_filter
            /\ search_mode' = FALSE
            /\ UNCHANGED should_quit
    /\ last' = "search_esc"
    /\ pre_expand' = None

SearchEsc ==
    /\ Running /\ search_mode
    /\ UNCHANGED file_vars
    /\ search_mode' = FALSE
    /\ clear_filter
    /\ last' = "search_esc"
    /\ UNCHANGED should_quit
    /\ pre_expand' = None

\* an Enter arm that leaves search mode by dropping the filter
SearchEnter_clears ==
    /\ Running /\ search_mode
    /\ UNCHANGED file_vars
    /\ search_mode' = FALSE
    /\ clear_filter
    /\ last' = "search_enter"
    /\ UNCHANGED should_quit
    /\ pre_expand' = None

SearchEnter ==
    /\ Running /\ search_mode
    /\ UNCHANGED file_vars
    /\ search_mode' = FALSE
    /\ last' = "search_enter"
    /\ UNCHANGED << tags, all_tags, filtered_tags, selected, should_quit, search_query >>
    /\ pre_expand' = None

\* String::pop
pop(s) == IF s = << >> THEN s ELSE SubSeq(s, 1, Len(s) - 1)

\* a Backspace arm that leaves search mode once the query is empty
SearchBackspace_leaves_when_empty ==
    /\ Running /\ search_mode
    /\ UNCHANGED file_vars
    /\ search_query' = pop(search_query)
    /\ filter_tags(search_query')
    /\ last' = "search_backspace"
    /\ search_mode' = (search_query' # << >>)
    /\ UNCHANGED should_quit
    /\ pre_expand' = None

SearchBackspace ==
    /\ Running /\ search_mode
    /\ UNCHANGED file_vars
    /\ search_query' = pop(search_query)
    /\ filter_tags(search_query')
    /\ last' = "search_backspace"
    /\ UNCHANGED << should_quit, search_mode >>
    /\ pre_expand' = None

SearchChar ==
    /\ Running /\ search_mode
    /\ UNCHANGED file_vars
    /\ Len(search_query) < MaxQuery
    /\ \E c \in KeyChars : search_query' = Append(search_query, c)
    /\ filter_tags(search_query')
    /\ last' = "search_char"
    /\ UNCHANGED << should_quit, search_mode >>
    /\ pre_expand' = None

\* a quit key that quits whether or not a filter is applied
NormalQuit_always_quits ==
    /\ Running /\ ~search_mode
    /\ UNCHANGED file_vars
    /\ should_quit' = TRUE
    /\ UNCHANGED << tags, all_tags, filtered_tags, selected, search_query >>
    /\ last' = "quit_key"
    /\ UNCHANGED search_mode
    /\ pre_expand' = None

\* a quit key that is not asked which mode the App is in
NormalQuit_in_any_mode ==
    /\ Running
    /\ UNCHANGED file_vars
    /\ IF search_query = << >>
       THEN /\ should_quit' = TRUE
            /\ UNCHANGED << tags, all_tags, filtered_tags, selected, search_query >>
       ELSE /\ clear_filter
            /\ UNCHANGED should_quit
    /\ last' = "quit_key"
    /\ UNCHANGED search_mode
    /\ pre_expand' = None

NormalQuit ==
    /\ Running /\ ~search_mode
    /\ UNCHANGED file_vars
    /\ IF search_query = << >>
       THEN /\ should_quit' = TRUE
            /\ UNCHANGED << tags, all_tags, filtered_tags, selected, search_query >>
       ELSE /\ clear_filter
            /\ UNCHANGED should_quit
    /\ last' = "quit_key"
    /\ UNCHANGED search_mode
    /\ pre_expand' = None

NormalDown ==
    /\ Running /\ ~search_mode
    /\ UNCHANGED file_vars
    /\ selected' = scroll_down(1)
    /\ last' = "cursor"
    /\ UNCHANGED << tags, all_tags, filtered_tags, should_quit, search_mode, search_query >>
    /\ KeepExpansionHistory

NormalUp ==
    /\ Running /\ ~search_mode
    /\ UNCHANGED file_vars
    /\ selected' = scroll_up(1)
    /\ last' = "cursor"
    /\ UNCHANGED << tags, all_tags, filtered_tags, should_quit, search_mode, search_query >>
    /\ KeepExpansionHistory

NormalSlash ==
    /\ Running /\ ~search_mode
    /\ UNCHANGED file_vars
    /\ search_mode' = TRUE
    /\ last' = "slash"
    /\ UNCHANGED << tags, all_tags, filtered_tags, selected, should_quit, search_query >>
    /\ pre_expand' = None

\* an expand key that also opens the search prompt
NormalRight_opening_search ==
    /\ Running /\ ~search_mode
    /\ UNCHANGED file_vars
    /\ expand_selected
    /\ last' = "right"
    /\ search_mode' = TRUE
    /\ UNCHANGED << should_quit, search_query >>
    /\ pre_expand' = IF tags' # tags
                      THEN Some([ view |-> tags, idx |-> Unwrap(selected),
                                  done |-> FALSE ])
                      ELSE None

NormalRight ==
    /\ Running /\ ~search_mode
    /\ UNCHANGED file_vars
    /\ expand_selected
    /\ last' = "right"
    /\ UNCHANGED << should_quit, search_mode, search_query >>
    /\ pre_expand' = IF tags' # tags
                      THEN Some([ view |-> tags, idx |-> Unwrap(selected),
                                  done |-> FALSE ])
                      ELSE None

NormalLeft ==
    /\ Running /\ ~search_mode
    /\ UNCHANGED file_vars
    /\ collapse_parent
    /\ last' = "left"
    /\ UNCHANGED << should_quit, search_mode, search_query >>
    /\ pre_expand' = IF /\ IsSome(pre_expand)
                         /\ ~Unwrap(pre_expand).done
                         /\ tags' # tags
                         /\ selected' = Some(Unwrap(pre_expand).idx)
                      THEN Some([ Unwrap(pre_expand) EXCEPT !.done = TRUE ])
                      ELSE None

MouseScrollDown ==
    /\ Running
    /\ UNCHANGED file_vars
    /\ selected' = scroll_down(3)
    /\ last' = "cursor"
    /\ UNCHANGED << tags, all_tags, filtered_tags, should_quit, search_mode, search_query >>
    /\ KeepExpansionHistory

MouseScrollUp ==
    /\ Running
    /\ UNCHANGED file_vars
    /\ selected' = scroll_up(3)
    /\ last' = "cursor"
    /\ UNCHANGED << tags, all_tags, filtered_tags, should_quit, search_mode, search_query >>
    /\ KeepExpansionHistory

\* a left click; tag_index is table_state.offset() + row_in_viewport
MouseClick ==
    /\ Running
    /\ UNCHANGED file_vars
    /\ \E tag_index \in 0..Len(tags) :
          selected' = IF tag_index < Len(tags) THEN Some(tag_index) ELSE selected
    /\ last' = "cursor"
    /\ UNCHANGED << tags, all_tags, filtered_tags, should_quit, search_mode, search_query >>
    /\ KeepExpansionHistory

\* any other key or event: the `_ => {}` arms, which change nothing
OtherEvent ==
    /\ Running
    /\ UNCHANGED vars

Next ==
    \/ SearchEsc
    \/ SearchEnter
    \/ SearchBackspace
    \/ SearchChar
    \/ NormalQuit
    \/ NormalDown
    \/ NormalUp
    \/ NormalSlash
    \/ NormalRight
    \/ NormalLeft
    \/ MouseScrollDown
    \/ MouseScrollUp
    \/ MouseClick
    \/ OtherEvent

Spec == Init /\ [][Next]_vars

(***************************************************************************)
(* compare_dicom_files: the root-level diff of two loaded files.           *)
(***************************************************************************)
\* the characters of a root identifier, in ascending byte order
ByteOrder ==
    << "(", ")", ",", "0","1","2","3","4","5","6","7","8","9",
       "A","B","C","D","E","F" >>

\* the rank of a character in ByteOrder
byte(c) == CHOOSE i \in 1..Len(ByteOrder) : ByteOrder[i] = c

\* Ord::cmp on two strings: lexicographic comparison of their bytes
RECURSIVE cmp(_, _)
cmp(a, b) ==
    IF a = << >> /\ b = << >> THEN "Equal"
    ELSE IF a = << >> THEN "Less"
    ELSE IF b = << >> THEN "Greater"
    ELSE IF byte(Head(a)) < byte(Head(b)) THEN "Less"
    ELSE IF byte(Head(a)) > byte(Head(b)) THEN "Greater"
    ELSE cmp(Tail(a), Tail(b))

\* x put into a vector sorted by tag, behind every element that does not
\* compare Greater than it
RECURSIVE insert_sorted(_, _)
insert_sorted(sorted, x) ==
    IF sorted = << >> THEN << x >>
    ELSE IF cmp(sorted[Len(sorted)].tag, x.tag) = "Greater"
         THEN Append(insert_sorted(SubSeq(sorted, 1, Len(sorted) - 1), x),
                     sorted[Len(sorted)])
         ELSE Append(sorted, x)

\* a result vector left in the order its entries were pushed
keep_push_order(ts) == ts

\* result_tags.sort_by(|a, b| a.tag.cmp(&b.tag)): a stable sort by tag
RECURSIVE sort_by_tag(_)
sort_by_tag(ts) ==
    IF ts = << >> THEN << >>
    ELSE insert_sorted(sort_by_tag(SubSeq(ts, 1, Len(ts) - 1)), ts[Len(ts)])

\* HashMap::insert: the entry for key k is v from now on
insert(map, k, v) == [ x \in (DOMAIN map) \cup { k } |-> IF x = k THEN v ELSE map[x] ]

\* baseline_map: every baseline root inserted under its tag, in order
RECURSIVE baseline_map_of(_)
baseline_map_of(ts) ==
    IF ts = << >> THEN [ x \in { } |-> x ]
    ELSE insert(baseline_map_of(SubSeq(ts, 1, Len(ts) - 1)),
                ts[Len(ts)].tag, ts[Len(ts)])

\* a status that compares the whole baseline root, subtree included
diff_status_by_subtree(baseline_map, modified_tag) ==
    IF modified_tag.tag \in DOMAIN baseline_map
    THEN IF baseline_map[modified_tag.tag] = modified_tag
         THEN "Unchanged" ELSE "Changed"
    ELSE "Added"

\* the status the first loop gives a modified root
diff_status_of(baseline_map, modified_tag) ==
    IF modified_tag.tag \in DOMAIN baseline_map
    THEN IF baseline_map[modified_tag.tag].value = modified_tag.value
         THEN "Unchanged" ELSE "Changed"
    ELSE "Added"

\* a node and every node below it given one status
RECURSIVE annotate_subtree(_, _)
annotate_subtree(t, status) ==
    [ t EXCEPT !.diff_status = status,
               !.children = [ i \in 1..Len(t.children) |->
                                 annotate_subtree(t.children[i], status) ] ]

\* a first loop that writes the status of a root on its whole subtree
modified_pass_annotating_subtree(baseline_map, modified) ==
    [ i \in 1..Len(modified) |->
        annotate_subtree(modified[i], diff_status_of(baseline_map, modified[i])) ]

\* the first loop: each modified root cloned with its status
modified_pass(baseline_map, modified) ==
    [ i \in 1..Len(modified) |->
        [ modified[i] EXCEPT !.diff_status = diff_status_of(baseline_map, modified[i]) ] ]

\* baseline_seen after the first loop
baseline_seen_of(baseline_map, modified) ==
    { modified[i].tag : i \in 1..Len(modified) } \cap DOMAIN baseline_map

\* the second loop: each baseline root not seen, cloned as Deleted
deleted_pass(baseline, baseline_seen) ==
    LET rest == SelectSeq(baseline, LAMBDA t : t.tag \notin baseline_seen) IN
    [ i \in 1..Len(rest) |-> [ rest[i] EXCEPT !.diff_status = "Deleted" ] ]

\* the vector compare_dicom_files returns for two loaded forests
compare_dicom_files(baseline, modified) ==
    LET baseline_map == baseline_map_of(baseline) IN
    sort_by_tag(modified_pass(baseline_map, modified)
                \o deleted_pass(baseline, baseline_seen_of(baseline_map, modified)))

\* dictionary alias of (0008,0060)
Modality == << "M","o","d","a","l","i","t","y" >>

\* (0008,0060) Modality with value CT, and with value MR
RootModalityCT ==
    PrimitiveTag(TagId(<<"0","0","0","8">>, <<"0","0","6","0">>), Modality,
                 "CS", "CT", 0)

RootModalityMR ==
    PrimitiveTag(TagId(<<"0","0","0","8">>, <<"0","0","6","0">>), Modality,
                 "CS", "MR", 0)

\* (0010,0010) PatientName with another value
RootPatientNameJane ==
    PrimitiveTag(TagId(<<"0","0","1","0">>, <<"0","0","1","0">>), PatientName,
                 "PN", "Roe^Jane", 0)

\* (0008,1140) ReferencedImageSequence with one item that holds (0008,1150):
\* the same displayed value as RootShallowSeq over another subtree
RootShallowSeqFilled ==
    SequenceTag(TagId(<<"0","0","0","8">>, <<"1","1","4","0">>),
                ReferencedImageSequence, 0,
                << ItemTag(0, 1,
                     << PrimitiveTag(TagId(<<"0","0","0","8">>, <<"1","1","5","0">>),
                                     ReferencedSOPClassUID, "UI", "1.2.840", 2) >>) >>)

DiffTemplates ==
    { RootModalityCT, RootModalityMR, RootPatientName, RootPatientNameJane,
      RootShallowSeq, RootShallowSeqFilled }

\* the forests the two files of a comparison can load to: up to MaxRoots
\* root elements with distinct identifiers
DiffForests ==
    UNION { { f \in [1..n -> DiffTemplates] :
                \A i, j \in 1..n : i # j => f[i].tag # f[j].tag } : n \in 0..MaxRoots }

\* a function of the files is run on its own, outside main
NoCall ==
    /\ call = None
    /\ ret = None
    /\ pc = "unit"
    /\ failed = { }

\* no App has been constructed
NoApp ==
    /\ tags = << >>
    /\ all_tags = << >>
    /\ filtered_tags = None
    /\ selected = None
    /\ should_quit = FALSE
    /\ search_mode = FALSE
    /\ search_query = << >>
    /\ last = "none"
    /\ pre_expand = None

app_vars == << tags, all_tags, filtered_tags, selected, should_quit,
               search_mode, search_query, last, pre_expand >>

\* both files loaded, nothing compared yet
InitDiff ==
    /\ baseline_tags \in DiffForests
    /\ modified_tags \in DiffForests
    /\ result_tags = None
    /\ obj = << >>
    /\ validation = None
    /\ NoCall
    /\ NoApp

CompareDicomFiles ==
    /\ result_tags = None
    /\ result_tags' = Some(compare_dicom_files(baseline_tags, modified_tags))
    /\ UNCHANGED << baseline_tags, modified_tags, obj, validation >>
    /\ UNCHANGED << call, ret, pc, failed >>
    /\ UNCHANGED app_vars

NextDiff == CompareDicomFiles

SpecDiff == InitDiff /\ [][NextDiff]_vars

\* the vectors the first loop of compare_dicom_files can be handed: up to
\* MaxRoots roots, identifiers repeated or not
RepeatingForests == UNION { [1..n -> DiffTemplates] : n \in 0..MaxRoots }

\* two vectors of roots, nothing compared yet
InitDiffRepeated ==
    /\ \E b \in RepeatingForests, m \in RepeatingForests :
          /\ baseline_tags = b
          /\ modified_tags = m
    /\ result_tags = None
    /\ obj = << >>
    /\ validation = None
    /\ NoCall
    /\ NoApp

SpecDiffRepeated == InitDiffRepeated /\ [][NextDiff]_vars

(***************************************************************************)
(* validate_type1_fields: the Type 1 check of an opened object.            *)
(* An object maps the tags of its root elements to elements; an element    *)
(* is the record [to_str |-> r] of what Element::to_str returns for it:    *)
(* Some(text) for Ok(text), None for Err.                                  *)
(***************************************************************************)
\* the most fields an opened object lacks or holds blank
MaxMissing == 2

\* the common head of the storage SOP class UIDs, "1.2.840.10008.5.1.4.1.1."
StorageUidHead ==
    << "1",".","2",".","8","4","0",".","1","0","0","0","8",".","5",".","1",
       ".","4",".","1",".","1","." >>

\* uids::CT_IMAGE_STORAGE, "1.2.840.10008.5.1.4.1.1.2"
CT_IMAGE_STORAGE == StorageUidHead \o << "2" >>

\* uids::MR_IMAGE_STORAGE, "1.2.840.10008.5.1.4.1.1.4"
MR_IMAGE_STORAGE == StorageUidHead \o << "4" >>

SOP_COMMON_TYPE1_TAGS ==
    << [ tag |-> "SOP_CLASS_UID", name |-> "SOPClassUID" ],
       [ tag |-> "SOP_INSTANCE_UID", name |-> "SOPInstanceUID" ] >>

GENERAL_STUDY_TYPE1_TAGS ==
    << [ tag |-> "STUDY_INSTANCE_UID", name |-> "StudyInstanceUID" ] >>

GENERAL_SERIES_TYPE1_TAGS ==
    << [ tag |-> "MODALITY", name |-> "Modality" ],
       [ tag |-> "SERIES_INSTANCE_UID", name |-> "SeriesInstanceUID" ] >>

FRAME_OF_REFERENCE_TYPE1_TAGS ==
    << [ tag |-> "FRAME_OF_REFERENCE_UID", name |-> "FrameOfReferenceUID" ] >>

IMAGE_PLANE_TYPE1_TAGS ==
    << [ tag |-> "IMAGE_POSITION_PATIENT", name |-> "ImagePositionPatient" ],
       [ tag |-> "IMAGE_ORIENTATION_PATIENT", name |-> "ImageOrientationPatient" ],
       [ tag |-> "PIXEL_SPACING", name |-> "PixelSpacing" ] >>

IMAGE_PIXEL_TYPE1_TAGS ==
    << [ tag |-> "SAMPLES_PER_PIXEL", name |-> "SamplesPerPixel" ],
       [ tag |-> "PHOTOMETRIC_INTERPRETATION", name |-> "PhotometricInterpretation" ],
       [ tag |-> "ROWS", name |-> "Rows" ],
       [ tag |-> "COLUMNS", name |-> "Columns" ],
       [ tag |-> "BITS_ALLOCATED", name |-> "BitsAllocated" ],
       [ tag |-> "BITS_STORED", name |-> "BitsStored" ],
       [ tag |-> "HIGH_BIT", name |-> "HighBit" ],
       [ tag |-> "PIXEL_REPRESENTATION", name |-> "PixelRepresentation" ],
       [ tag |-> "PIXEL_DATA", name |-> "PixelData" ] >>

CT_IMAGE_TYPE1_TAGS ==
    << [ tag |-> "IMAGE_TYPE", name |-> "ImageType" ],
       [ tag |-> "RESCALE_INTERCEPT", name |-> "RescaleIntercept" ],
       [ tag |-> "RESCALE_SLOPE", name |-> "RescaleSlope" ] >>

MR_IMAGE_TYPE1_TAGS ==
    << [ tag |-> "IMAGE_TYPE", name |-> "ImageType" ],
       [ tag |-> "SCANNING_SEQUENCE", name |-> "ScanningSequence" ],
       [ tag |-> "SEQUENCE_VARIANT", name |-> "SequenceVariant" ],
       [ tag |-> "MR_ACQUISITION_TYPE", name |-> "MRAcquisitionType" ] >>

\* char::is_whitespace, for the characters a value can hold here
is_whitespace(c) == c \in { " ", "\t", "\n", "\r" }

\* str::trim_start and str::trim
RECURSIVE trim_start(_)
trim_start(s) ==
    IF s # << >> /\ is_whitespace(Head(s)) THEN trim_start(Tail(s)) ELSE s

RECURSIVE trim(_)
trim(s) ==
    IF s # << >> /\ is_whitespace(s[Len(s)])
    THEN trim(SubSeq(s, 1, Len(s) - 1))
    ELSE trim_start(s)

\* obj.element(tag).ok()
element(o, tag) == IF tag \in DOMAIN o THEN Some(o[tag]) ELSE None

\* the trimmed text of the SOP Class UID element, if it has one
sop_class_uid_of(o) ==
    LET e == element(o, "SOP_CLASS_UID") IN
    IF IsSome(e) /\ IsSome(Unwrap(e).to_str)
    THEN Some(trim(Unwrap(Unwrap(e).to_str)))
    ELSE None

\* a choice of table that takes any UID starting with a storage UID
modality_tags_by_prefix(sop_class_uid) ==
    IF Len(sop_class_uid) >= Len(CT_IMAGE_STORAGE)
       /\ SubSeq(sop_class_uid, 1, Len(CT_IMAGE_STORAGE)) = CT_IMAGE_STORAGE
    THEN Some(CT_IMAGE_TYPE1_TAGS)
    ELSE IF Len(sop_class_uid) >= Len(MR_IMAGE_STORAGE)
            /\ SubSeq(sop_class_uid, 1, Len(MR_IMAGE_STORAGE)) = MR_IMAGE_STORAGE
    THEN Some(MR_IMAGE_TYPE1_TAGS)
    ELSE None

\* a presence test that asks only whether the element exists
is_tag_present_by_existence(o, tag) == IsSome(element(o, tag))

\* the modality table the UID selects, or None where the function returns
\* NotApplicable
modality_tags_of(sop_class_uid) ==
    IF sop_class_uid = CT_IMAGE_STORAGE THEN Some(CT_IMAGE_TYPE1_TAGS)
    ELSE IF sop_class_uid = MR_IMAGE_STORAGE THEN Some(MR_IMAGE_TYPE1_TAGS)
    ELSE None

is_tag_present(o, tag) ==
    LET e == element(o, tag) IN
    IF IsSome(e)
    THEN IF IsSome(Unwrap(e).to_str)
         THEN trim(Unwrap(Unwrap(e).to_str)) # << >>
         ELSE TRUE
    ELSE FALSE

\* one loop over a table: the names of its tags that are not present
missing_in(o, table) ==
    LET absent == SelectSeq(table, LAMBDA rule : ~is_tag_present(o, rule.tag)) IN
    [ i \in 1..Len(absent) |-> absent[i].name ]

\* the loops run with the modality table first
missing_tags_modality_first(o, modality_tags) ==
    missing_in(o, modality_tags)
    \o missing_in(o, SOP_COMMON_TYPE1_TAGS)
    \o missing_in(o, GENERAL_STUDY_TYPE1_TAGS)
    \o missing_in(o, GENERAL_SERIES_TYPE1_TAGS)
    \o missing_in(o, FRAME_OF_REFERENCE_TYPE1_TAGS)
    \o missing_in(o, IMAGE_PLANE_TYPE1_TAGS)
    \o missing_in(o, IMAGE_PIXEL_TYPE1_TAGS)

\* missing_tags after the seven loops
missing_tags_of(o, modality_tags) ==
    missing_in(o, SOP_COMMON_TYPE1_TAGS)
    \o missing_in(o, GENERAL_STUDY_TYPE1_TAGS)
    \o missing_in(o, GENERAL_SERIES_TYPE1_TAGS)
    \o missing_in(o, FRAME_OF_REFERENCE_TYPE1_TAGS)
    \o missing_in(o, IMAGE_PLANE_TYPE1_TAGS)
    \o missing_in(o, IMAGE_PIXEL_TYPE1_TAGS)
    \o missing_in(o, modality_tags)

\* ValidationResult
Valid == << "Valid" >>
Invalid(missing_tags) == << "Invalid", missing_tags >>
NotApplicable == << "NotApplicable" >>

validate_type1_fields(o) ==
    LET sop_class_uid == sop_class_uid_of(o) IN
    IF ~IsSome(sop_class_uid) THEN NotApplicable
    ELSE LET modality_tags == modality_tags_of(Unwrap(sop_class_uid)) IN
         IF ~IsSome(modality_tags) THEN NotApplicable
         ELSE LET missing_tags == missing_tags_of(o, Unwrap(modality_tags)) IN
              IF missing_tags = << >> THEN Valid ELSE Invalid(missing_tags)

\* flatten: the tags of a table
TagsOf(table) == { table[i].tag : i \in 1..Len(table) }

\* every tag a table names, SOP_CLASS_UID apart
OtherRuleTags ==
    ( TagsOf(SOP_COMMON_TYPE1_TAGS) \cup TagsOf(GENERAL_STUDY_TYPE1_TAGS)
      \cup TagsOf(GENERAL_SERIES_TYPE1_TAGS)
      \cup TagsOf(FRAME_OF_REFERENCE_TYPE1_TAGS)
      \cup TagsOf(IMAGE_PLANE_TYPE1_TAGS) \cup TagsOf(IMAGE_PIXEL_TYPE1_TAGS)
      \cup TagsOf(CT_IMAGE_TYPE1_TAGS) \cup TagsOf(MR_IMAGE_TYPE1_TAGS) )
    \ { "SOP_CLASS_UID" }

\* an element with a text value, and one whose value has no text form
TextElement(s) == [ to_str |-> Some(s) ]
BinaryElement == [ to_str |-> None ]

\* what the file holds for SOP Class UID: nothing, a value without text
\* form, or a text: CT, CT padded to even length, MR with a leading blank,
\* Enhanced CT (1.2.840.10008.5.1.4.1.1.2.1), Secondary Capture
\* (1.2.840.10008.5.1.4.1.1.7), or only a blank
SopClassElements ==
    { None,
      Some(BinaryElement),
      Some(TextElement(CT_IMAGE_STORAGE)),
      Some(TextElement(CT_IMAGE_STORAGE \o << " " >>)),
      Some(TextElement(<< " " >> \o MR_IMAGE_STORAGE)),
      Some(TextElement(CT_IMAGE_STORAGE \o << ".", "1" >>)),
      Some(TextElement(StorageUidHead \o << "7" >>)),
      Some(TextElement(<< " " >>)) }

\* the element a well-formed file holds for a tag
HealthyElement(tag) ==
    IF tag = "PIXEL_DATA" THEN BinaryElement ELSE TextElement(<< "1", " " >>)

\* the sets of at most k tags
RECURSIVE TagSetsUpTo(_)
TagSetsUpTo(k) ==
    IF k = 0 THEN { { } }
    ELSE LET smaller == TagSetsUpTo(k - 1) IN
         smaller \cup { s \cup { t } : s \in smaller, t \in OtherRuleTags }

\* the ways a file can fall short: at most MaxMissing tags, each either not
\* in the file or holding only a blank
Defects == UNION { [ d -> { "absent", "blank" } ] : d \in TagSetsUpTo(MaxMissing) }

\* the object opened from a file with the given SOP Class UID element and
\* defects
OpenedObject(sop, defects) ==
    [ tag \in ( IF IsSome(sop) THEN { "SOP_CLASS_UID" } ELSE { } )
              \cup { t \in OtherRuleTags :
                        t \notin DOMAIN defects \/ defects[t] # "absent" } |->
        IF tag = "SOP_CLASS_UID" THEN Unwrap(sop)
        ELSE IF tag \in DOMAIN defects THEN TextElement(<< " " >>)
        ELSE HealthyElement(tag) ]

\* the file opened, nothing validated yet
InitValidate ==
    /\ \E sop \in SopClassElements, defects \in Defects :
          obj = OpenedObject(sop, defects)
    /\ validation = None
    /\ baseline_tags = << >>
    /\ modified_tags = << >>
    /\ result_tags = None
    /\ NoCall
    /\ NoApp

ValidateType1Fields ==
    /\ validation = None
    /\ validation' = Some(validate_type1_fields(obj))
    /\ UNCHANGED << baseline_tags, modified_tags, result_tags, obj >>
    /\ UNCHANGED << call, ret, pc, failed >>
    /\ UNCHANGED app_vars

NextValidate == ValidateType1Fields

SpecValidate == InitValidate /\ [][NextValidate]_vars

(***************************************************************************)
(* Functions run on their own: DicomTag::is_private, App::new_with_diff,   *)
(* App::build_path_to_tag and App::set_expanded_in_tree, each applied to   *)
(* arguments drawn from bounded sets.                                      *)
(***************************************************************************)
\* the longest path handed to set_expanded_in_tree
MaxPathLen == 3

\* how many rows past the end of the view a row index is taken
MaxOvershoot == 2

\* str::get(from..to) on an ASCII string: None when the string is shorter
get(s, from, to) == IF to <= Len(s) THEN Some(SubSeq(s, from + 1, to)) ELSE None

\* char::to_digit(16)
to_digit(c) ==
    CASE c = "0" -> Some(0)  [] c = "1" -> Some(1)  [] c = "2" -> Some(2)
      [] c = "3" -> Some(3)  [] c = "4" -> Some(4)  [] c = "5" -> Some(5)
      [] c = "6" -> Some(6)  [] c = "7" -> Some(7)  [] c = "8" -> Some(8)
      [] c = "9" -> Some(9)
      [] c \in { "a", "A" } -> Some(10) [] c \in { "b", "B" } -> Some(11)
      [] c \in { "c", "C" } -> Some(12) [] c \in { "d", "D" } -> Some(13)
      [] c \in { "e", "E" } -> Some(14) [] c \in { "f", "F" } -> Some(15)
      [] OTHER -> None

\* the digits of from_str_radix folded into acc; None on a character that
\* is no digit or on a value past u16::MAX
RECURSIVE fold_digits(_, _)
fold_digits(s, acc) ==
    IF s = << >> THEN Some(acc)
    ELSE IF ~IsSome(to_digit(Head(s))) THEN None
    ELSE IF acc * 16 + Unwrap(to_digit(Head(s))) > 65535 THEN None
    ELSE fold_digits(Tail(s), acc * 16 + Unwrap(to_digit(Head(s))))

\* u16::from_str_radix(s, 16).ok(): an optional leading plus sign, then at
\* least one digit
from_str_radix(s) ==
    IF s = << >> THEN None
    ELSE IF Head(s) = "+"
    THEN IF Tail(s) = << >> THEN None ELSE fold_digits(Tail(s), 0)
    ELSE fold_digits(s, 0)

\* a test of the parity of the element number, characters 6..10
is_private_by_element(tag) ==
    LET s == get(tag, 6, 10) IN
    IF IsSome(s) /\ IsSome(from_str_radix(Unwrap(s)))
    THEN Unwrap(from_str_radix(Unwrap(s))) % 2 = 1
    ELSE FALSE

\* DicomTag::is_private
is_private(tag) ==
    LET s == get(tag, 1, 5) IN
    IF IsSome(s) /\ IsSome(from_str_radix(Unwrap(s)))
    THEN Unwrap(from_str_radix(Unwrap(s))) % 2 = 1
    ELSE FALSE

\* a constructor that selects row 0 whatever the view holds
new_with_diff_selecting(ts) ==
    [ tags |-> build_visible_tags_from(ts), all_tags |-> ts,
      filtered_tags |-> None, selected |-> Some(0),
      should_quit |-> FALSE, search_mode |-> FALSE, search_query |-> << >> ]

\* App::new_with_diff: the fields of the App built over a forest
new_with_diff(ts) ==
    [ tags |-> build_visible_tags_from(ts), all_tags |-> ts,
      filtered_tags |-> None,
      selected |-> (IF build_visible_tags_from(ts) # << >> THEN Some(0) ELSE None),
      should_quit |-> FALSE, search_mode |-> FALSE, search_query |-> << >> ]

\* the expansion states of a forest: every expandable node open or closed
RECURSIVE ExpansionStates(_)
ExpansionStates(ts) ==
    IF ts = << >> THEN { << >> }
    ELSE { << [ Head(ts) EXCEPT !.is_expanded = e, !.children = c ] >> \o rest :
              e \in (IF Head(ts).is_expandable THEN BOOLEAN ELSE { FALSE }),
              c \in ExpansionStates(Head(ts).children),
              rest \in ExpansionStates(Tail(ts)) }

\* the forests a function of the App can be handed: a loaded forest in any
\* expansion state
Forests == UNION { ExpansionStates(f) : f \in LoadedForests }

\* the paths handed to set_expanded_in_tree: child positions, one past the
\* widest level included
Paths == UNION { [ 1..n -> 0..MaxRoots ] : n \in 0..MaxPathLen }

\* the characters a group or element number is written with here: hex
\* digits of both cases and a letter that is no hex digit
HexSample == { "0", "1", "8", "b", "E", "G" }

\* the identifier "Invalid"
InvalidId == << "I","n","v","a","l","i","d" >>

\* identifiers: (GGGG,EEEE) over the sample, item headers, and strings of
\* neither form, one of them shorter than five characters
Identifiers ==
    { TagId(g, e) : g \in [ 1..4 -> HexSample ],
                    e \in { << "0","0","1","0" >>, << "0","0","1","1" >> } }
    \cup { ItemLabel(0), ItemLabel(1), InvalidId, << >>, << "(","0","1" >> }

\* the row indices handed to build_path_to_tag over a forest: every row of
\* its view and MaxOvershoot indices past the last
RowIndices(f) == 0..(Len(build_visible_tags_from(f)) + MaxOvershoot - 1)

\* the values an element of the probed object can hold: no text form, or
\* a text that is empty, blank, other white space, padded or plain
ElementSamples ==
    { BinaryElement, TextElement(<< >>), TextElement(<< " " >>),
      TextElement(<< "\t", "\n" >>), TextElement(<< " ", "1", " " >>),
      TextElement(<< "1" >>) }

\* the tags asked for, and the objects asked: any of the tags ROWS and
\* PIXEL_DATA with any of the sample values
ProbeTags == { "ROWS", "COLUMNS", "PIXEL_DATA" }

ProbeObjects ==
    UNION { [ d -> ElementSamples ] : d \in SUBSET { "ROWS", "PIXEL_DATA" } }

\* one call is pending
InitCalls ==
    /\ \/ \E id \in Identifiers :
             call = Some([ fn |-> "is_private", tag |-> id ])
       \/ \E f \in Forests :
             call = Some([ fn |-> "new_with_diff", tags |-> f ])
       \/ \E f \in Forests : \E i \in RowIndices(f) :
             call = Some([ fn |-> "build_path_to_tag", tags |-> f,
                           visible_idx |-> i ])
       \/ \E f \in Forests, p \in Paths, b \in BOOLEAN :
             call = Some([ fn |-> "set_expanded_in_tree", tags |-> f,
                           path |-> p, expanded |-> b ])
       \/ \E o \in ProbeObjects, t \in ProbeTags :
             call = Some([ fn |-> "is_tag_present", obj |-> o, tag |-> t ])
    /\ ret = None
    /\ pc = "unit"
    /\ failed = { }
    /\ baseline_tags = << >>
    /\ modified_tags = << >>
    /\ result_tags = None
    /\ obj = << >>
    /\ validation = None
    /\ NoApp

\* everything but ret
call_frame == << baseline_tags, modified_tags, result_tags, obj, validation,
                 call, pc, failed >>

CallIsPrivate ==
    /\ ret = None /\ IsSome(call) /\ Unwrap(call).fn = "is_private"
    /\ ret' = Some(is_private(Unwrap(call).tag))
    /\ UNCHANGED call_frame
    /\ UNCHANGED app_vars

CallIsTagPresent ==
    /\ ret = None /\ IsSome(call) /\ Unwrap(call).fn = "is_tag_present"
    /\ ret' = Some(is_tag_present(Unwrap(call).obj, Unwrap(call).tag))
    /\ UNCHANGED call_frame
    /\ UNCHANGED app_vars

CallNewWithDiff ==
    /\ ret = None /\ IsSome(call) /\ Unwrap(call).fn = "new_with_diff"
    /\ ret' = Some(new_with_diff(Unwrap(call).tags))
    /\ UNCHANGED call_frame
    /\ UNCHANGED app_vars

CallBuildPathToTag ==
    /\ ret = None /\ IsSome(call) /\ Unwrap(call).fn = "build_path_to_tag"
    /\ ret' = Some(build_path_to_tag(Unwrap(call).tags, Unwrap(call).visible_idx))
    /\ UNCHANGED call_frame
    /\ UNCHANGED app_vars

CallSetExpandedInTree ==
    /\ ret = None /\ IsSome(call) /\ Unwrap(call).fn = "set_expanded_in_tree"
    /\ ret' = Some(set_expanded_in_tree(Unwrap(call).tags, Unwrap(call).path,
                                        Unwrap(call).expanded))
    /\ UNCHANGED call_frame
    /\ UNCHANGED app_vars

NextCalls ==
    \/ CallIsPrivate
    \/ CallNewWithDiff
    \/ CallBuildPathToTag
    \/ CallSetExpandedInTree
    \/ CallIsTagPresent

SpecCalls == InitCalls /\ [][NextCalls]_vars

(***************************************************************************)
(* main: the files are loaded, compared and validated once, then the App   *)
(* is built and the event loop entered.  Each open_file is a read of the   *)
(* file system at the moment of the call and returns Ok or Err.            *)
(***************************************************************************)
\* the object open_file gives for a file whose roots are ts: of the tags
\* the rule tables name, these files hold at most Modality
ObjectOf(ts) ==
    LET rows == { i \in 1..Len(ts) : ts[i].name = Modality } IN
    [ tag \in { "MODALITY" : i \in rows } |->
        TextElement(IF ts[CHOOSE i \in rows : TRUE].value = "CT"
                    THEN << "C", "T" >> ELSE << "M", "R" >>) ]

\* main is called with one file, or with --diff and two files
InitMain ==
    /\ \/ \E f \in LoadedForests :
             call = Some([ fn |-> "main", diff |-> FALSE, files |-> << f >> ])
       \/ \E a \in DiffForests, b \in DiffForests :
             call = Some([ fn |-> "main", diff |-> TRUE, files |-> << a, b >> ])
    /\ ret = None
    /\ pc = "main"
    /\ failed = { }
    /\ baseline_tags = << >>
    /\ modified_tags = << >>
    /\ result_tags = None
    /\ obj = << >>
    /\ validation = None
    /\ NoApp

\* let tags = dicom::load_dicom_file(&file)?
MainLoadOk ==
    /\ pc = "main" /\ ~Unwrap(call).diff
    /\ pc' = "get_sop_class"
    /\ UNCHANGED << baseline_tags, modified_tags, result_tags, obj, validation,
                    call, ret, failed >>
    /\ UNCHANGED app_vars

MainLoadErr ==
    /\ pc = "main" /\ ~Unwrap(call).diff
    /\ failed' = { "load_dicom_file" }
    /\ ret' = Some("Err")
    /\ pc' = "exit"
    /\ UNCHANGED << baseline_tags, modified_tags, result_tags, obj, validation, call >>
    /\ UNCHANGED app_vars

\* let tags = dicom::compare_dicom_files(baseline_path, modified_path)?
MainCompareOk ==
    /\ pc = "main" /\ Unwrap(call).diff
    /\ baseline_tags' = Unwrap(call).files[1]
    /\ modified_tags' = Unwrap(call).files[2]
    /\ result_tags' = Some(compare_dicom_files(baseline_tags', modified_tags'))
    /\ pc' = "get_sop_class"
    /\ UNCHANGED << obj, validation, call, ret, failed >>
    /\ UNCHANGED app_vars

\* the load of the baseline file fails, or that of the modified file after
\* the baseline file was loaded
MainCompareErr ==
    /\ pc = "main" /\ Unwrap(call).diff
    /\ \E modified_failed \in BOOLEAN :
          /\ baseline_tags' = IF modified_failed THEN Unwrap(call).files[1] ELSE << >>
          /\ failed' = { IF modified_failed THEN "load_dicom_file(modified)"
                                            ELSE "load_dicom_file(baseline)" }
    /\ ret' = Some("Err")
    /\ pc' = "exit"
    /\ UNCHANGED << modified_tags, result_tags, obj, validation, call >>
    /\ UNCHANGED app_vars

\* validation::get_sop_class(..).unwrap_or(SopClass::Unknown)
MainGetSopClass ==
    /\ pc = "get_sop_class"
    /\ \E ok \in BOOLEAN :
          failed' = IF ok THEN failed ELSE failed \cup { "get_sop_class" }
    /\ pc' = "validate"
    /\ UNCHANGED << baseline_tags, modified_tags, result_tags, obj, validation, call, ret >>
    /\ UNCHANGED app_vars

\* validation::validate_type1_fields(..).unwrap_or(ValidationResult::NotApplicable)
MainValidate ==
    /\ pc = "validate"
    /\ \E ok \in BOOLEAN :
          /\ obj' = IF ok THEN ObjectOf(Unwrap(call).files[1]) ELSE obj
          /\ validation' = IF ok THEN Some(validate_type1_fields(obj'))
                           ELSE Some(NotApplicable)
          /\ failed' = IF ok THEN failed ELSE failed \cup { "validate_type1_fields" }
    /\ pc' = "new_app"
    /\ UNCHANGED << baseline_tags, modified_tags, result_tags, call, ret >>
    /\ UNCHANGED app_vars

\* App::new_with_diff(tags, ..), then run_app
MainNewApp ==
    /\ pc = "new_app"
    /\ \E app \in { new_with_diff(IF Unwrap(call).diff THEN Unwrap(result_tags)
                                    ELSE Unwrap(call).files[1]) } :
          /\ tags' = app.tags
          /\ all_tags' = app.all_tags
          /\ filtered_tags' = app.filtered_tags
          /\ selected' = app.selected
          /\ should_quit' = app.should_quit
          /\ search_mode' = app.search_mode
          /\ search_query' = app.search_query
    /\ last' = "new"
    /\ pre_expand' = None
    /\ pc' = "run_app"
    /\ UNCHANGED << baseline_tags, modified_tags, result_tags, obj, validation,
                    call, ret, failed >>

NextMain ==
    \/ MainLoadOk
    \/ MainLoadErr
    \/ MainCompareOk
    \/ MainCompareErr
    \/ MainGetSopClass
    \/ MainValidate
    \/ MainNewApp

SpecMain == InitMain /\ [][NextMain]_vars

(***************************************************************************)
(* Structural paths, used to state the properties independently of the     *)
(* traversals above.  A path is the sequence of 1-based child positions    *)
(* from a root.                                                            *)
(***************************************************************************)
\* the paths reachable from the roots through expanded nodes with children
RECURSIVE VisiblePaths(_)
VisiblePaths(ts) ==
    UNION { { << i >> } \cup
            (IF ts[i].is_expanded /\ ts[i].children # << >>
             THEN { << i >> \o p : p \in VisiblePaths(ts[i].children) }
             ELSE { }) : i \in 1..Len(ts) }

\* every path of the forest
RECURSIVE AllPaths(_)
AllPaths(ts) ==
    UNION { { << i >> } \cup { << i >> \o p : p \in AllPaths(ts[i].children) }
            : i \in 1..Len(ts) }

RECURSIVE NodeAt(_, _)
NodeAt(ts, p) ==
    IF Len(p) = 1 THEN ts[p[1]] ELSE NodeAt(ts[p[1]].children, Tail(p))

\* p is a proper prefix of q: q lies below p
IsProperPrefix(p, q) == Len(p) < Len(q) /\ SubSeq(q, 1, Len(p)) = p

\* p comes before q in pre-order: an ancestor first, else the smaller branch
PreOrderBefore(p, q) ==
    \/ IsProperPrefix(p, q)
    \/ \E k \in 1..Min(Len(p), Len(q)) :
          /\ SubSeq(p, 1, k - 1) = SubSeq(q, 1, k - 1)
          /\ p[k] < q[k]

\* the 0-based row of a visible path in pre-order
RowOf(ts, p) == Cardinality({ q \in VisiblePaths(ts) : PreOrderBefore(q, p) })

\* the visible path shown at a 0-based row
PathOfRow(ts, row) == CHOOSE p \in VisiblePaths(ts) : RowOf(ts, p) = row

\* a view is the pre-order sequence of the visible nodes of a forest
IsPreOrderViewOf(view, ts) ==
    /\ Len(view) = Cardinality(VisiblePaths(ts))
    /\ \A p \in VisiblePaths(ts) : view[RowOf(ts, p) + 1] = NodeAt(ts, p)

(***************************************************************************)
(* C1: the projection of every forest is exactly the pre-order             *)
(* depth-first sequence of the nodes reachable from the roots through      *)
(* expanded nodes with children: a node before its children, children only *)
(* under an expanded node, and as many rows as there are such nodes.       *)
(***************************************************************************)
C1_ProjectionIsPreOrder ==
    \A ts \in { all_tags, active_tags } :
        IsPreOrderViewOf(build_visible_tags_from(ts), ts)

\* a partially expanded forest: a depth-2 row is shown while another
\* expandable node stays collapsed
C1_Witness ==
    /\ \E i \in 1..Len(tags) : tags[i].depth = 2
    /\ \E j \in 1..Len(tags) : tags[j].is_expandable /\ ~tags[j].is_expanded
    /\ tags = build_visible_tags_from(active_tags)

(***************************************************************************)
(* C2: expand_selected on an expandable, collapsed node under the cursor   *)
(* sets exactly that node's expanded flag in the forest driving the view,  *)
(* its children then follow it directly in the view, and the cursor index  *)
(* stays; otherwise the forests, the view and the cursor are unchanged.    *)
(***************************************************************************)
\* what the table shows of a row: every field but the cloned subtree
Shown(t) == [ t EXCEPT !.children = << >> ]

ShownView(view) == [ k \in 1..Len(view) |-> Shown(view[k]) ]

\* forest `new` is forest `old` with exactly the flag at path p set to value
OnlyFlagChanged(old, new, p, value) ==
    /\ AllPaths(new) = AllPaths(old)
    /\ \A q \in AllPaths(old) :
          LET a == NodeAt(old, q)
              b == NodeAt(new, q) IN
          /\ b.is_expanded = (IF q = p THEN value ELSE a.is_expanded)
          /\ [ Shown(b) EXCEPT !.is_expanded = FALSE ]
               = [ Shown(a) EXCEPT !.is_expanded = FALSE ]

\* the forest that does not drive the view is left alone
OtherForestUnchanged ==
    IF IsSome(filtered_tags) THEN all_tags' = all_tags /\ IsSome(filtered_tags')
    ELSE filtered_tags' = None

C2_ExpandEffect ==
    LET i == Unwrap(selected)
        row == tags[i + 1]
        grown == Len(tags') - Len(tags)
        below == SubSeq(tags', i + 2, i + 1 + grown) IN
    IF IsSome(selected) /\ row.is_expandable /\ ~row.is_expanded
    THEN /\ OnlyFlagChanged(active_tags, active_of(filtered_tags', all_tags'),
                            PathOfRow(active_tags, i), TRUE)
         /\ OtherForestUnchanged
         /\ selected' = selected
         /\ grown >= 1
         /\ ShownView(SubSeq(tags', 1, i)) = ShownView(SubSeq(tags, 1, i))
         /\ tags'[i + 1] = [ row EXCEPT !.is_expanded = TRUE ]
         /\ below[1] = row.children[1]
         /\ \A k \in 1..grown : below[k].depth > row.depth
         /\ SelectSeq(below, LAMBDA t : t.depth = row.depth + 1) = row.children
         /\ SubSeq(tags', i + 2 + grown, Len(tags')) = SubSeq(tags, i + 2, Len(tags))
    ELSE UNCHANGED << tags, all_tags, filtered_tags, selected >>

C2_ExpandSelected == [][NormalRight => C2_ExpandEffect]_vars

\* an expansion has just happened below root level: the cursor is on the
\* expanded node and its first child is the next row
C2_Witness ==
    /\ last = "right"
    /\ IsSome(selected)
    /\ Unwrap(selected) + 2 <= Len(tags)
    /\ tags[Unwrap(selected) + 1].is_expanded
    /\ tags[Unwrap(selected) + 1].depth = 1
    /\ tags[Unwrap(selected) + 2].depth = 2

(***************************************************************************)
(* C3: collapse_parent with the cursor on a node of depth D > 0 collapses  *)
(* the nearest preceding row of the view with depth < D and expanded, and  *)
(* leaves the cursor on that node at its row in the recomputed view.       *)
(***************************************************************************)
\* the rows before row sel that are shallower than depth and expanded
OpenShallowerRows(sel, depth) ==
    { j \in 0..(sel - 1) : tags[j + 1].depth < depth /\ tags[j + 1].is_expanded }

C3_CollapseEffect ==
    LET sel == Unwrap(selected)
        cands == OpenShallowerRows(sel, tags[sel + 1].depth)
        j == CHOOSE c \in cands : \A k \in cands : k <= c
        new_active == active_of(filtered_tags', all_tags') IN
    (IsSome(selected) /\ tags[sel + 1].depth > 0) =>
        /\ cands # { }
        /\ OnlyFlagChanged(active_tags, new_active, PathOfRow(active_tags, j), FALSE)
        /\ OtherForestUnchanged
        /\ selected' = Some(j)
        /\ tags'[j + 1] = [ tags[j + 1] EXCEPT !.is_expanded = FALSE ]
        /\ PathOfRow(new_active, j) = PathOfRow(active_tags, j)

C3_CollapseParent == [][NormalLeft => C3_CollapseEffect]_vars

\* a collapse has left the cursor, below row 0, on a collapsed node that
\* hides a child which stays expanded
C3_Witness ==
    /\ last = "left"
    /\ IsSome(selected)
    /\ Unwrap(selected) > 0
    /\ tags[Unwrap(selected) + 1].is_expandable
    /\ ~tags[Unwrap(selected) + 1].is_expanded
    /\ \E c \in 1..Len(tags[Unwrap(selected) + 1].children) :
          tags[Unwrap(selected) + 1].children[c].is_expanded

(***************************************************************************)
(* C4: expanding a collapsed node and then collapsing that same node gives *)
(* back, row for row, the view there was before the expansion.             *)
(***************************************************************************)
C4_RoundTrip ==
    [][ ( /\ NormalLeft
          /\ IsSome(pre_expand)
          /\ ~Unwrap(pre_expand).done
          /\ tags' # tags
          /\ selected' = Some(Unwrap(pre_expand).idx) )
        => tags' = Unwrap(pre_expand).view ]_vars

\* under a filter, the node expanded last has been collapsed again, and it
\* hides a child that stays expanded
C4_Witness ==
    /\ last = "left"
    /\ IsSome(pre_expand)
    /\ Unwrap(pre_expand).done
    /\ selected = Some(Unwrap(pre_expand).idx)
    /\ IsSome(filtered_tags)
    /\ \E c \in 1..Len(tags[Unwrap(selected) + 1].children) :
          tags[Unwrap(selected) + 1].children[c].is_expanded

(***************************************************************************)
(* C5: collapsing an expanded node removes from the view all of and only   *)
(* that node's visible descendants; the other rows stay, in their order.   *)
(***************************************************************************)
\* the paths whose node goes from expanded to collapsed in this step
CollapsedPaths ==
    { q \in AllPaths(active_tags) :
        /\ NodeAt(active_tags, q).is_expanded
        /\ q \in AllPaths(active_of(filtered_tags', all_tags'))
        /\ ~NodeAt(active_of(filtered_tags', all_tags'), q).is_expanded }

\* the rows of the view below row j: those after it, up to the next row
\* that is not deeper than row j
RowsBelow(view, j) ==
    { r \in (j + 1)..(Len(view) - 1) :
        \A k \in (j + 1)..r : view[k + 1].depth > view[j + 1].depth }

\* view `new` is view `old` with the n rows below row j removed and row j
\* shown collapsed
IsViewWithoutRowsBelow(new, old, j, n) ==
    /\ n >= 1
    /\ Len(new) = Len(old) - n
    /\ \A r \in 0..(j - 1) : Shown(new[r + 1]) = Shown(old[r + 1])
    /\ Shown(new[j + 1]) = [ Shown(old[j + 1]) EXCEPT !.is_expanded = FALSE ]
    /\ \A r \in (j + n + 1)..(Len(old) - 1) : new[r + 1 - n] = old[r + 1]

C5_CollapseEffect ==
    \A p \in CollapsedPaths :
        \A j \in { RowOf(active_tags, p) } :
            \A n \in { Cardinality(RowsBelow(tags, j)) } :
                IsViewWithoutRowsBelow(tags', tags, j, n)

CasePairs ==
    UNION { { << Uppers[i], Lowers[i] >>, << Lowers[i], Uppers[i] >> } : i \in 1..Len(Uppers) }

SameLetter(a, b) ==
    \/ a = b
    \/ << a, b >> \in CasePairs

ContainsIgnoringCase(hay, needle) ==
    \E k \in 0..(Len(hay) - Len(needle)) :
        \A j \in 1..Len(needle) : SameLetter(hay[k + j], needle[j])

RootMatches(t, query) ==
    \/ ContainsIgnoringCase(t.tag, query)
    \/ ContainsIgnoringCase(t.name, query)

\* the query has just been edited
QueryEdited == last \in { "search_char", "search_backspace" }

(***************************************************************************)
(* C6: with a non-empty query the filter result holds exactly the roots of *)
(* the unfiltered forest whose identifier or name contains the query,      *)
(* ignoring case, each with its whole subtree; a root that does not match  *)
(* is left out even when a descendant matches; no matching root gives an   *)
(* empty view.                                                             *)
(***************************************************************************)
C6_FilterPolicy ==
    (QueryEdited /\ search_query # << >>) =>
        /\ IsSome(filtered_tags)
        /\ Unwrap(filtered_tags)
             = SelectSeq(all_tags, LAMBDA t : RootMatches(t, search_query))
        /\ (\A i \in 1..Len(all_tags) : ~RootMatches(all_tags[i], search_query))
             => tags = << >>

\* a root is left out although one of its descendants matches the query,
\* while another root is retained
C6_Witness ==
    /\ QueryEdited
    /\ search_query # << >>
    /\ tags # << >>
    /\ \E i \in 1..Len(all_tags) :
          /\ ~RootMatches(all_tags[i], search_query)
          /\ \E p \in AllPaths(<< all_tags[i] >>) :
                RootMatches(NodeAt(<< all_tags[i] >>, p), search_query)

(***************************************************************************)
(* C7: whenever the query becomes empty (delete-last, cancel, or the quit  *)
(* key clearing a filter) no filter is present and the view is the         *)
(* projection of the unfiltered forest with the flags it has then.         *)
(***************************************************************************)
C7_EmptyQueryShowsAll ==
    (last \in { "search_backspace", "search_esc", "quit_key" } /\ search_query = << >>) =>
        /\ filtered_tags = None
        /\ IsPreOrderViewOf(tags, all_tags)

\* delete-last has emptied the query while the unfiltered forest has an
\* expanded node, whose children are shown again
C7_Witness ==
    /\ last = "search_backspace"
    /\ search_query = << >>
    /\ search_mode
    /\ \E i \in 1..Len(tags) : tags[i].depth >= 1

(***************************************************************************)
(* C8: every change to the active filter (character append, delete-last,   *)
(* cancel, quit key clearing the filter) leaves the cursor on row 0 of the *)
(* new view, or on no selection when the new view is empty.                *)
(***************************************************************************)
FilterChanged ==
    \/ last \in { "search_char", "search_backspace", "search_esc" }
    \/ last = "quit_key" /\ ~should_quit

C8_FilterChangeResetsCursor ==
    FilterChanged => selected = (IF tags = << >> THEN None ELSE Some(0))

\* the quit key has cleared a filter and the cursor is on the first of
\* several rows
C8_Witness ==
    /\ last = "quit_key"
    /\ ~should_quit
    /\ Len(tags) > 1
    /\ selected = Some(0)

(***************************************************************************)
(* C9: in Normal mode the quit key with a filter applied removes the       *)
(* filter, shows the full forest and does not quit; with no filter it sets *)
(* should_quit.  A quit key that did not quit leaves no filter, so the     *)
(* next one quits.                                                         *)
(***************************************************************************)
C9_QuitEffect ==
    /\ IF IsSome(filtered_tags)
       THEN /\ filtered_tags' = None
            /\ all_tags' = all_tags
            /\ IsPreOrderViewOf(tags', all_tags)
            /\ ~should_quit'
       ELSE should_quit'
    /\ ~should_quit' => filtered_tags' = None

C9_QuitKey == [][NormalQuit => C9_QuitEffect]_vars

\* the quit key has removed a filter without quitting
C9_Witness ==
    /\ last = "quit_key"
    /\ ~should_quit
    /\ filtered_tags = None
    /\ tags # << >>

(***************************************************************************)
(* C10: the '/' key in Normal mode enters Searching mode with the query    *)
(* reset to the empty string, whatever the query was before.               *)
(***************************************************************************)
C10_SlashResetsQuery ==
    last = "slash" => (search_mode /\ search_query = << >>)


(***************************************************************************)
(* C11-C15: the search mode arms, and expansion under a filter.            *)
(***************************************************************************)
\* C11: Esc handled in search mode leaves the app in normal mode with an
\* empty query, no filter and a view that is the pre-order projection of
\* the full forest; it does not set should_quit.
C11_SearchCancel ==
    last = "search_esc" =>
        /\ ~search_mode
        /\ search_query = << >>
        /\ filtered_tags = None
        /\ IsPreOrderViewOf(tags, all_tags)
        /\ ~should_quit

\* Esc was pressed in search mode over a forest with an expanded node, so the
\* restored view shows rows below the roots
C11_Witness ==
    /\ last = "search_esc"
    /\ ~search_mode
    /\ Len(tags) > Len(all_tags)


\* C12: Enter handled in search mode switches to normal mode and changes
\* nothing else: the query, the filter, the view, the cursor, the full
\* forest and should_quit are what they were.
C12_SearchConfirm ==
    [][SearchEnter =>
          /\ ~search_mode'
          /\ UNCHANGED << search_query, filtered_tags, tags, selected,
                          all_tags, should_quit >>]_vars

\* Enter was pressed with a query typed, a filter applied and rows shown
C12_Witness ==
    /\ last = "search_enter"
    /\ ~search_mode
    /\ search_query # << >>
    /\ IsSome(filtered_tags)
    /\ tags # << >>

\* C13: Backspace handled in search mode removes the last character of the
\* query (an empty query stays empty), re-filters the full forest with the
\* new query, and stays in search mode; when the query becomes empty the
\* filter is removed and the mode is still search mode.
C13_SearchDeleteLast ==
    [][SearchBackspace =>
          /\ search_mode'
          /\ Len(search_query') = saturating_sub(Len(search_query), 1)
          /\ search_query' = SubSeq(search_query, 1, Len(search_query'))
          /\ search_query' = << >> => filtered_tags' = None
          /\ search_query' # << >> =>
                /\ IsSome(filtered_tags')
                /\ Unwrap(filtered_tags') =
                      SelectSeq(all_tags, LAMBDA t : RootMatches(t, search_query'))
          /\ all_tags' = all_tags
          /\ ~should_quit']_vars

\* Backspace left an empty query: no filter is applied, rows are shown and
\* the app is still in search mode
C13_Witness ==
    /\ last = "search_backspace"
    /\ search_mode
    /\ search_query = << >>
    /\ filtered_tags = None
    /\ tags # << >>


\* the flags of the filtered copy differ from those of the roots it was
\* cloned from
FilteredCopyDiverged ==
    /\ IsSome(filtered_tags)
    /\ Unwrap(filtered_tags) # filter_roots(all_tags, search_query)

\* C14: no event handled while a filter is present changes all_tags: every
\* field and flag of every node of the full forest is what it was.
C14_FilterFreezesAllTags ==
    [][IsSome(filtered_tags) => all_tags' = all_tags]_vars

\* an expansion was made while a filter was present: the filtered copy holds
\* a flag the full forest does not
C14_Witness ==
    /\ last = "right"
    /\ FilteredCopyDiverged

\* the rows of view that are exact copies of the children of node t,
\* counted below row j (0-based)
ChildrenShownBelow(view, j, t) ==
    /\ Len(view) >= j + 1 + Len(t.children)
    /\ \A c \in 1..Len(t.children) :
          \E k \in (j + 2)..Len(view) :
             /\ Shown(view[k]) = Shown(t.children[c])
             /\ view[k].depth = t.depth + 1

\* C15: with a filter present, expand_selected on a collapsed expandable row
\* with children makes its children rows of the view, and collapse_parent
\* from a row below the roots removes rows from the view again; in both
\* cases the changed flag is written to the filtered forest and to nothing
\* else.
C15_ExpansionUnderFilter ==
    [][IsSome(filtered_tags) =>
          /\ ( /\ NormalRight
               /\ IsSome(selected)
               /\ tags[Unwrap(selected) + 1].is_expandable
               /\ ~tags[Unwrap(selected) + 1].is_expanded
               /\ tags[Unwrap(selected) + 1].children # << >> )
             => /\ Len(tags') >= Len(tags) + Len(tags[Unwrap(selected) + 1].children)
                /\ ChildrenShownBelow(tags', Unwrap(selected), tags[Unwrap(selected) + 1])
                /\ tags'[Unwrap(selected) + 1].is_expanded
                /\ IsSome(filtered_tags')
                /\ filtered_tags' # filtered_tags
                /\ IsPreOrderViewOf(tags', Unwrap(filtered_tags'))
                /\ all_tags' = all_tags
          /\ ( /\ NormalLeft
               /\ IsSome(selected)
               /\ tags[Unwrap(selected) + 1].depth > 0 )
             => /\ Len(tags') < Len(tags)
                /\ IsSome(selected')
                /\ Unwrap(selected') < Unwrap(selected)
                /\ ~tags'[Unwrap(selected') + 1].is_expanded
                /\ tags[Unwrap(selected') + 1].is_expanded
                /\ Unwrap(selected') + 2 <= Len(tags') =>
                      tags'[Unwrap(selected') + 2].depth
                         <= tags'[Unwrap(selected') + 1].depth
                /\ IsSome(filtered_tags')
                /\ filtered_tags' # filtered_tags
                /\ IsPreOrderViewOf(tags', Unwrap(filtered_tags'))
                /\ all_tags' = all_tags]_vars

\* with a filter present a node was expanded and collapsed again from one of
\* its children: the round trip is complete and the filter is still there
C15_Witness ==
    /\ last = "left"
    /\ IsSome(filtered_tags)
    /\ IsSome(pre_expand)
    /\ Unwrap(pre_expand).done
    /\ tags = Unwrap(pre_expand).view


(***************************************************************************)
(* C16-C18: the diff of two files.                                         *)
(***************************************************************************)
\* the identifiers of the roots of a forest
RootIds(ts) == { ts[i].tag : i \in 1..Len(ts) }

\* the root of ts that carries identifier id
RootWithId(ts, id) == ts[CHOOSE i \in 1..Len(ts) : ts[i].tag = id]

\* the statuses found in a diff result
StatusesIn(ts) == { ts[i].diff_status : i \in 1..Len(ts) }

\* the status and the value an entry of the diff must carry for identifier id
ExpectedStatus(a_roots, b_roots, id) ==
    IF id \notin RootIds(a_roots) THEN "Added"
    ELSE IF id \notin RootIds(b_roots) THEN "Deleted"
    ELSE IF RootWithId(a_roots, id).value = RootWithId(b_roots, id).value
         THEN "Unchanged"
         ELSE "Changed"

ExpectedValue(a_roots, b_roots, id) ==
    IF id \in RootIds(b_roots) THEN RootWithId(b_roots, id).value
    ELSE RootWithId(a_roots, id).value

\* C16: for all baseline roots A and modified roots B, every identifier found
\* in A or B has exactly one entry in the result: Added with B's value when
\* only in B, Deleted with A's value when only in A, Unchanged when in both
\* with equal values, Changed when in both with different values; and the
\* result has no other entry.
C16_DiffClassification ==
    IsSome(result_tags) =>
        \A r \in { Unwrap(result_tags) } :
           /\ RootIds(r) = RootIds(baseline_tags) \cup RootIds(modified_tags)
           /\ Len(r) = Cardinality(RootIds(r))
           /\ \A k \in 1..Len(r) :
                 /\ r[k].diff_status =
                       ExpectedStatus(baseline_tags, modified_tags, r[k].tag)
                 /\ r[k].value =
                       ExpectedValue(baseline_tags, modified_tags, r[k].tag)

\* a comparison whose result holds an added, a deleted and a changed root
C16_Witness ==
    /\ IsSome(result_tags)
    /\ { "Added", "Deleted", "Changed" } \subseteq StatusesIn(Unwrap(result_tags))

\* C17: a Changed root of the result carries both values: the modified
\* file's value as its value and the baseline file's value as its baseline
\* value.
C17_ChangedCarriesBothValues ==
    IsSome(result_tags) =>
        \A k \in 1..Len(Unwrap(result_tags)) :
           \A t \in { Unwrap(result_tags)[k] } :
              t.diff_status = "Changed" =>
                 /\ t.value = RootWithId(modified_tags, t.tag).value
                 /\ "baseline_value" \in DOMAIN t
                 /\ t.baseline_value = Some(RootWithId(baseline_tags, t.tag).value)

\* the value of a hexadecimal digit
HexDigit(c) ==
    CASE c = "0" -> 0  [] c = "1" -> 1  [] c = "2" -> 2  [] c = "3" -> 3
      [] c = "4" -> 4  [] c = "5" -> 5  [] c = "6" -> 6  [] c = "7" -> 7
      [] c = "8" -> 8  [] c = "9" -> 9  [] c = "A" -> 10 [] c = "B" -> 11
      [] c = "C" -> 12 [] c = "D" -> 13 [] c = "E" -> 14 [] c = "F" -> 15

\* the number a root identifier "(GGGG,EEEE)" stands for: group, then element
IdNumber(id) ==
    LET d(i) == HexDigit(id[i]) IN
    ((((((d(2) * 16 + d(3)) * 16 + d(4)) * 16 + d(5)) * 16 + d(7)) * 16
        + d(8)) * 16 + d(9)) * 16 + d(10)

\* the entries of the result in the order the two loops push them: the
\* modified roots, then the baseline roots the modified file lacks
PushOrderIds ==
    [ i \in 1..Len(modified_tags) |-> modified_tags[i].tag ]
    \o SelectSeq([ i \in 1..Len(baseline_tags) |-> baseline_tags[i].tag ],
                 LAMBDA id : id \notin RootIds(modified_tags))

\* C18: the roots of the result are in ascending order of identifier,
\* whatever the order of the roots in the baseline and the modified file.
C18_DiffSorted ==
    IsSome(result_tags) =>
        \A r \in { Unwrap(result_tags) } :
           \A k \in 1..(Len(r) - 1) : IdNumber(r[k].tag) < IdNumber(r[k + 1].tag)

\* a comparison of files whose roots are not in ascending order, with
\* entries pushed out of order, and a result of at least three roots
C18_Witness ==
    /\ IsSome(result_tags)
    /\ Len(Unwrap(result_tags)) >= 3
    /\ "Unchanged" \in StatusesIn(Unwrap(result_tags))
    /\ \E k \in 1..(Len(PushOrderIds) - 1) :
          IdNumber(PushOrderIds[k]) > IdNumber(PushOrderIds[k + 1])
    /\ \E k \in 1..(Len(baseline_tags) - 1) :
          IdNumber(baseline_tags[k].tag) > IdNumber(baseline_tags[k + 1].tag)


(***************************************************************************)
(* C19-C20: the Type 1 validation.                                         *)
(***************************************************************************)
\* the text between the first and the last character of s that is not
\* white space
Stripped(s) ==
    LET inked == { i \in 1..Len(s) : s[i] \notin { " ", "\t", "\n", "\r" } } IN
    IF inked = { } THEN << >>
    ELSE SubSeq(s, CHOOSE i \in inked : \A j \in inked : i <= j,
                   CHOOSE i \in inked : \A j \in inked : i >= j)

\* the class identifier of an object: the stripped text of its SOP Class UID
\* element, << "none" >> when the element is not there or has no text form
ClassIdOf(o) ==
    IF "SOP_CLASS_UID" \in DOMAIN o /\ o["SOP_CLASS_UID"].to_str # None
    THEN Stripped(o["SOP_CLASS_UID"].to_str[1])
    ELSE << "none" >>

\* a field is missing when the object has no element for it, or a text
\* element with nothing but white space
FieldMissing(o, tag) ==
    \/ tag \notin DOMAIN o
    \/ /\ o[tag].to_str # None
       /\ \A i \in 1..Len(o[tag].to_str[1]) :
             o[tag].to_str[1][i] \in { " ", "\t", "\n", "\r" }

\* the rules that apply to a class, in rule-table order: the six common
\* tables in the order they are defined, then the table of the modality
RuleOrder(class_table) ==
    SOP_COMMON_TYPE1_TAGS \o GENERAL_STUDY_TYPE1_TAGS
    \o GENERAL_SERIES_TYPE1_TAGS \o FRAME_OF_REFERENCE_TYPE1_TAGS
    \o IMAGE_PLANE_TYPE1_TAGS \o IMAGE_PIXEL_TYPE1_TAGS \o class_table

\* the display names of the missing fields of o, in the order of rules
MissingNames(o, rules) ==
    LET lacking == SelectSeq(rules, LAMBDA rule : FieldMissing(o, rule.tag)) IN
    [ i \in 1..Len(lacking) |-> lacking[i].name ]

\* C19: validation returns NotApplicable when the SOP Class UID is absent,
\* and when it is present but is neither the CT nor the MR storage class,
\* whatever the other fields hold.
C19_NotApplicable ==
    IsSome(validation) =>
        ( ClassIdOf(obj) \notin { CT_IMAGE_STORAGE, MR_IMAGE_STORAGE }
          => Unwrap(validation) = << "NotApplicable" >> )

\* an object of another storage class with a required field missing was
\* validated
C19_Witness ==
    /\ IsSome(validation)
    /\ Unwrap(validation) = << "NotApplicable" >>
    /\ ClassIdOf(obj) = CT_IMAGE_STORAGE \o << ".", "1" >>
    /\ FieldMissing(obj, "SOP_INSTANCE_UID")

\* C20: when the class identifier selects a modality table, the result is
\* Valid exactly when no required field is missing, and otherwise
\* Invalid(S) with S the display names of exactly the missing fields in
\* rule-table order: common tables first, then the modality table.
C20_ValidOrMissingInOrder ==
    IsSome(validation) =>
        \A class \in { ClassIdOf(obj) } :
           class \in { CT_IMAGE_STORAGE, MR_IMAGE_STORAGE } =>
              \A rules \in { RuleOrder(IF class = CT_IMAGE_STORAGE
                                       THEN CT_IMAGE_TYPE1_TAGS
                                       ELSE MR_IMAGE_TYPE1_TAGS) } :
                 \A names \in { MissingNames(obj, rules) } :
                    /\ (Unwrap(validation) = << "Valid" >>) <=> (names = << >>)
                    /\ names # << >> => Unwrap(validation) = << "Invalid", names >>

\* an MR object lacking a field of the MR table and holding a blank field of
\* a common table was validated: the common name comes first
C20_Witness ==
    /\ IsSome(validation)
    /\ ClassIdOf(obj) = MR_IMAGE_STORAGE
    /\ Unwrap(validation) = << "Invalid", << "Rows", "ImageType" >> >>
    /\ "IMAGE_TYPE" \notin DOMAIN obj
    /\ "ROWS" \in DOMAIN obj


(***************************************************************************)
(* C21-C27: functions run on their own.                                    *)
(***************************************************************************)
\* a path of 0-based child indices as a path of 1-based child positions
OneBased(path) == [ k \in 1..Len(path) |-> path[k] + 1 ]

\* the pending call is of function fn and has returned
Returned(fn) == IsSome(call) /\ Unwrap(call).fn = fn /\ IsSome(ret)

\* C21: set_expanded_in_tree with an empty path, or a path with an index out
\* of range at any level, returns the forest as it was: no flag of any node
\* changes, the nodes on the valid prefix of the path included.
C21_InvalidPathIsNoOp ==
    Returned("set_expanded_in_tree") =>
        ( OneBased(Unwrap(call).path) \notin AllPaths(Unwrap(call).tags)
          => Unwrap(ret) = Unwrap(call).tags )

\* a path whose first index names a root with children and whose second
\* index is past them, with a value the root does not hold: nothing changed
C21_Witness ==
    /\ Returned("set_expanded_in_tree")
    /\ Len(Unwrap(call).path) >= 2
    /\ Unwrap(call).path[1] < Len(Unwrap(call).tags)
    /\ Unwrap(call).tags[Unwrap(call).path[1] + 1].children # << >>
    /\ Unwrap(call).path[2] >= Len(Unwrap(call).tags[Unwrap(call).path[1] + 1].children)
    /\ Unwrap(call).tags[Unwrap(call).path[1] + 1].is_expanded # Unwrap(call).expanded
    /\ Unwrap(ret) = Unwrap(call).tags

\* C22: build_path_to_tag with a row index greater than or equal to the
\* number of rows of the view returns the empty path, for every forest and
\* expansion state.
C22_OutOfRangeGivesEmptyPath ==
    Returned("build_path_to_tag") =>
        ( Unwrap(call).visible_idx >= Cardinality(VisiblePaths(Unwrap(call).tags))
          => Unwrap(ret) = << >> )

\* a row index past the view of a forest that shows rows below its roots,
\* so that the traversal went down and came back: the empty path
C22_Witness ==
    /\ Returned("build_path_to_tag")
    /\ Unwrap(call).visible_idx >= Cardinality(VisiblePaths(Unwrap(call).tags))
    /\ \E p \in VisiblePaths(Unwrap(call).tags) : Len(p) = 3
    /\ Unwrap(ret) = << >>

\* C24: a newly constructed App is in normal mode with an empty query, no
\* filter and should_quit false; its forest is the one given and its view
\* the pre-order projection of it; row 0 is selected when the view has rows
\* and nothing is selected when it has none.
C24_NewApp ==
    Returned("new_with_diff") =>
        \A app \in { Unwrap(ret) } :
           /\ ~app.search_mode
           /\ app.search_query = << >>
           /\ app.filtered_tags = None
           /\ ~app.should_quit
           /\ app.all_tags = Unwrap(call).tags
           /\ IsPreOrderViewOf(app.tags, Unwrap(call).tags)
           /\ app.selected = IF Len(app.tags) > 0 THEN << 0 >> ELSE << >>

\* an App built over a forest with a row of depth 2 in view
C24_Witness ==
    /\ Returned("new_with_diff")
    /\ \E k \in 1..Len(Unwrap(ret).tags) : Unwrap(ret).tags[k].depth = 2
    /\ Unwrap(ret).selected = << 0 >>

\* the hexadecimal digits, and those of odd value
HexChars ==
    { "0","1","2","3","4","5","6","7","8","9",
      "a","b","c","d","e","f","A","B","C","D","E","F" }

OddHexChars == { "1","3","5","7","9","b","d","f","B","D","F" }

\* an identifier of the form (GGGG,EEEE)
IsElementId(id) ==
    /\ Len(id) = 11
    /\ id[1] = "(" /\ id[6] = "," /\ id[11] = ")"
    /\ \A k \in { 2, 3, 4, 5, 7, 8, 9, 10 } : id[k] \in HexChars

\* C25: is_private is true exactly for the identifiers of the form
\* (GGGG,EEEE) whose group GGGG is odd; it is false for even groups and for
\* every identifier whose characters 1..5 are not a hexadecimal number.
C25_IsPrivate ==
    Returned("is_private") =>
        \A id \in { Unwrap(call).tag } :
           /\ Unwrap(ret) <=> (IsElementId(id) /\ id[5] \in OddHexChars)
           /\ ( \/ Len(id) < 5
                \/ \E k \in 2..5 : id[k] \notin HexChars ) => ~Unwrap(ret)

\* an identifier whose group ends in the lower-case odd digit b was found
\* private
C25_Witness ==
    /\ Returned("is_private")
    /\ Unwrap(ret) = TRUE
    /\ Len(Unwrap(call).tag) = 11
    /\ Unwrap(call).tag[5] = "b"
    /\ Unwrap(call).tag[10] = "0"

\* C27: for every forest and every row index within its view,
\* build_path_to_tag returns the path of child indices from a root that
\* leads to the node shown at that row, and every node on the path but the
\* last is expanded.
C27_LocateFindsRow ==
    Returned("build_path_to_tag") =>
        \A ts \in { Unwrap(call).tags } :
           Unwrap(call).visible_idx < Cardinality(VisiblePaths(ts)) =>
              \A p \in { OneBased(Unwrap(ret)) } :
                 /\ p \in AllPaths(ts)
                 /\ p = PathOfRow(ts, Unwrap(call).visible_idx)
                 /\ \A k \in 1..(Len(p) - 1) : NodeAt(ts, SubSeq(p, 1, k)).is_expanded

\* a row of depth 2 that is not the first row of the view was located
C27_Witness ==
    /\ Returned("build_path_to_tag")
    /\ Len(Unwrap(ret)) = 3
    /\ Unwrap(ret)[1] = 1
    /\ Unwrap(call).visible_idx >= 3


(***************************************************************************)
(* C23: failures while loading.                                            *)
(***************************************************************************)
\* C23: any failure during loading (decoding either file, the diff, the
\* validation) is fatal: main reports the error and the event loop is never
\* entered.
C23_LoadFailureIsFatal ==
    failed # { } =>
        /\ pc # "run_app"
        /\ pc = "exit" => ret = Some("Err")


(***************************************************************************)
(* C26-C30: the view and the forests over any sequence of events.          *)
(***************************************************************************)
\* C26: after every handled event the stored view is the pre-order
\* projection of the forest that drives it: the filtered roots when a
\* filter is present, the unfiltered forest otherwise.
C26_ViewFollowsDrivingForest ==
    pc = "run_app" =>
        IF filtered_tags # None
        THEN IsPreOrderViewOf(tags, filtered_tags[1])
        ELSE IsPreOrderViewOf(tags, all_tags)

\* events were handled, a filter is present, and the view shows a row of
\* depth 2 of the filtered roots while the unfiltered forest is collapsed
C26_Witness ==
    /\ last = "right"
    /\ filtered_tags # None
    /\ \E k \in 1..Len(tags) : tags[k].depth = 2
    /\ \A i \in 1..Len(all_tags) : ~all_tags[i].is_expanded

\* the identifiers of the roots of a forest, in order
RootIdSeq(ts) == [ i \in 1..Len(ts) |-> ts[i].tag ]

\* C28: filtering is not cumulative: every character append and delete-last
\* that leaves a non-empty query leaves as filtered roots exactly the roots
\* of the unfiltered forest that match the new query, in the order of the
\* unfiltered forest, whatever the filter was before.
C28_FilterFromScratch ==
    [][\A query \in { search_query' } :
          (last' \in {"search_char", "search_backspace"} /\ query # << >>) =>
             /\ filtered_tags' # None
             /\ RootIdSeq(filtered_tags'[1]) =
                   RootIdSeq(SelectSeq(all_tags, LAMBDA t : RootMatches(t, query)))
             /\ all_tags' = all_tags]_vars

\* delete-last left a one-character query: whichever character was
\* deleted, the longer query matched fewer roots than are retained now
C28_Witness ==
    /\ last = "search_backspace"
    /\ Len(search_query) = 1
    /\ filtered_tags # None
    /\ \A c \in KeyChars :
          Len(SelectSeq(all_tags, LAMBDA t : RootMatches(t, search_query \o << c >>)))
             < Len(filtered_tags[1])

\* a forest with every expanded flag cleared
RECURSIVE Structure(_)
Structure(ts) ==
    [ i \in 1..Len(ts) |->
        [ ts[i] EXCEPT !.is_expanded = FALSE, !.children = Structure(ts[i].children) ] ]

\* C29: over any sequence of events the unfiltered forest keeps its
\* structure: the number and order of the roots and of every node's
\* children, and every node's identifier, name, type code, value, depth,
\* expandable flag and diff annotation; only expanded flags change.
C29_AllTagsStructureFixed ==
    [][Structure(all_tags') = Structure(all_tags)]_vars

\* events have changed flags of the unfiltered forest below the roots
C29_Witness ==
    /\ last = "left"
    /\ \E i \in 1..Len(all_tags) :
          /\ ~all_tags[i].is_expanded
          /\ \E j \in 1..Len(all_tags[i].children) : all_tags[i].children[j].is_expanded

\* every node of a forest has the depth of its position, is expandable
\* exactly when it has children, and is expanded only if expandable
WellFormedForest(ts) ==
    \A p \in AllPaths(ts) :
       \A t \in { NodeAt(ts, p) } :
          /\ t.depth = Len(p) - 1
          /\ t.is_expandable <=> (t.children # << >>)
          /\ t.is_expanded => t.is_expandable

\* C30: from a forest built by the loader, every node of the unfiltered
\* forest and of the filtered roots keeps the data-model invariants in
\* every reachable state: roots have depth 0, a child has its parent's
\* depth + 1, expandable holds iff there are children, and expanded implies
\* expandable.
C30_DataModelInvariants ==
    /\ WellFormedForest(all_tags)
    /\ filtered_tags # None => WellFormedForest(filtered_tags[1])

\* both forests hold an expanded node, and the view holds a leaf row
C30_Witness ==
    /\ filtered_tags # None
    /\ \E i \in 1..Len(filtered_tags[1]) : filtered_tags[1][i].is_expanded
    /\ \E i \in 1..Len(all_tags) : all_tags[i].is_expanded
    /\ \E k \in 1..Len(tags) : ~tags[k].is_expandable


(***************************************************************************)
(* C31-C32: repeated identifiers and subtrees in the diff.                 *)
(***************************************************************************)
\* the first root of ts that carries identifier id
FirstRootWithId(ts, id) ==
    ts[CHOOSE i \in 1..Len(ts) :
          /\ ts[i].tag = id
          /\ \A j \in 1..(i - 1) : ts[j].tag # id]

\* the last root of ts that carries identifier id
LastRootWithId(ts, id) ==
    ts[CHOOSE i \in 1..Len(ts) :
          /\ ts[i].tag = id
          /\ \A j \in (i + 1)..Len(ts) : ts[j].tag # id]

C31_LastOccurrenceCompared ==
    IsSome(result_tags) =>
        \A r \in { Unwrap(result_tags) } :
           \A k \in 1..Len(r) :
              r[k].diff_status \in { "Unchanged", "Changed" } =>
                 (r[k].diff_status = "Unchanged"
                    <=> r[k].value = LastRootWithId(baseline_tags, r[k].tag).value)


\* the paths of ts that lead below root level
PathsBelowRoots(ts) == { p \in AllPaths(ts) : Len(p) > 1 }

\* C32: the diff compares roots only: a modified root whose value equals the
\* value of the baseline root with its identifier is Unchanged whether or
\* not the two subtrees are equal, it keeps the subtree of the modified
\* file, and no node below root level of the result carries a diff
\* annotation.
C32_RootGranularity ==
    IsSome(result_tags) =>
        \A r \in { Unwrap(result_tags) } :
           /\ \A k \in 1..Len(r) :
                 \A i \in 1..Len(baseline_tags), j \in 1..Len(modified_tags) :
                    ( /\ baseline_tags[i].tag = r[k].tag
                      /\ modified_tags[j].tag = r[k].tag
                      /\ baseline_tags[i].value = modified_tags[j].value )
                    => /\ r[k].diff_status = "Unchanged"
                       /\ r[k].children = modified_tags[j].children
           /\ \A p \in PathsBelowRoots(r) : NodeAt(r, p).diff_status = "None"

\* an Unchanged root of the result whose subtree differs from the subtree
\* of the baseline root with the same identifier and value
C32_Witness ==
    /\ IsSome(result_tags)
    /\ \E k \in 1..Len(Unwrap(result_tags)) :
          \E i \in 1..Len(baseline_tags) :
             /\ Unwrap(result_tags)[k].diff_status = "Unchanged"
             /\ baseline_tags[i].tag = Unwrap(result_tags)[k].tag
             /\ baseline_tags[i].children # Unwrap(result_tags)[k].children
             /\ PathsBelowRoots(<< Unwrap(result_tags)[k] >>) # { }


(***************************************************************************)
(* C33: presence of a required field.                                      *)
(***************************************************************************)
\* the text holds a character that is not white space
HasVisibleChar(s) ==
    \E i \in 1..Len(s) : s[i] \notin { " ", "\t", "\n", "\r" }

\* C33: a field counts as present iff the object has an element with its
\* tag and the element's value either has no text form or has a text that
\* is not empty once white space is trimmed; an element that exists with an
\* empty or all-white-space text counts as missing.
C33_FieldPresence ==
    Returned("is_tag_present") =>
        \A o \in { Unwrap(call).obj } : \A t \in { Unwrap(call).tag } :
           /\ Unwrap(ret) <=>
                 /\ t \in DOMAIN o
                 /\ \/ o[t].to_str = None
                    \/ o[t].to_str # None /\ HasVisibleChar(o[t].to_str[1])
           /\ ( /\ t \in DOMAIN o
                /\ o[t].to_str # None
                /\ ~HasVisibleChar(o[t].to_str[1]) ) => ~Unwrap(ret)

\* an element that exists and holds only a tab and a line feed was found
\* not present
C33_Witness ==
    /\ Returned("is_tag_present")
    /\ Unwrap(ret) = FALSE
    /\ Unwrap(call).tag \in DOMAIN Unwrap(call).obj
    /\ Unwrap(call).obj[Unwrap(call).tag] = TextElement(<< "\t", "\n" >>)


(***************************************************************************)
(* C34-C40: the event loop.                                                *)
(***************************************************************************)
\* C34: collapse_parent with no selection, or with the cursor on a row of
\* depth 0, does nothing: both forests with all their expanded flags, the
\* view and the cursor are what they were.
C34_CollapseAtRootIsNoOp ==
    [][( /\ NormalLeft
         /\ \/ selected = None
            \/ selected # None /\ tags[selected[1] + 1].depth = 0 )
       => /\ all_tags' = all_tags
          /\ filtered_tags' = filtered_tags
          /\ tags' = tags
          /\ selected' = selected]_vars

\* a collapse has left the cursor on an expanded row of depth 0, below
\* row 0, with its children still shown
C34_Witness ==
    /\ last = "left"
    /\ selected # None
    /\ selected[1] > 0
    /\ tags[selected[1] + 1].depth = 0
    /\ tags[selected[1] + 1].is_expanded
    /\ selected[1] + 2 <= Len(tags)
    /\ tags[selected[1] + 2].depth = 1


\* C35: in Normal mode the cursor, expand and collapse keys make no mode
\* transition: search mode, query and should_quit stay as they are, and a
\* filter stays present or absent with the same roots in the same order.
C35_NavigationKeepsMode ==
    [][(NormalDown \/ NormalUp \/ NormalRight \/ NormalLeft)
       => /\ search_mode' = search_mode
          /\ search_query' = search_query
          /\ should_quit' = should_quit
          /\ (filtered_tags' = None) <=> (filtered_tags = None)
          /\ filtered_tags # None =>
                RootIdSeq(filtered_tags'[1]) = RootIdSeq(filtered_tags[1])]_vars

\* in Normal mode under a confirmed filter of two roots, a collapse key has
\* just changed the view
C35_Witness ==
    /\ last = "left"
    /\ ~search_mode
    /\ ~should_quit
    /\ search_query # << >>
    /\ filtered_tags # None
    /\ Len(filtered_tags[1]) = 2
    /\ selected # None
    /\ tags[selected[1] + 1].is_expandable
    /\ ~tags[selected[1] + 1].is_expanded
    /\ tags[selected[1] + 1].depth = 1


\* the cursor after a move down, and after a move up, by n rows: the row n
\* further when there is one, the last row or row 0 otherwise
MovedDown(n) ==
    selected' = << IF selected[1] + n < Len(tags) THEN selected[1] + n
                   ELSE Len(tags) - 1 >>

MovedUp(n) ==
    selected' = << IF selected[1] >= n THEN selected[1] - n ELSE 0 >>

\* C36: in every state of the event loop there is no selection iff the view
\* is empty, and a selection is a row of the view; a cursor key moves by
\* one row and a mouse scroll by three, stopping at the last row and at
\* row 0 without wrapping, and none of them moves anything in an empty
\* view.
C36_CursorValid ==
    /\ [](pc = "run_app" =>
            /\ (selected = None) <=> (tags = << >>)
            /\ selected # None => selected[1] \in 0..(Len(tags) - 1))
    /\ [][/\ (NormalDown /\ tags # << >>) => MovedDown(1)
          /\ (MouseScrollDown /\ tags # << >>) => MovedDown(3)
          /\ (NormalUp /\ tags # << >>) => MovedUp(1)
          /\ (MouseScrollUp /\ tags # << >>) => MovedUp(3)
          /\ ( (NormalDown \/ NormalUp \/ MouseScrollDown \/ MouseScrollUp)
               /\ tags = << >> ) => selected' = None]_vars

\* under a filter, in search mode, a cursor move has left the cursor on the
\* last of at least four rows
C36_Witness ==
    /\ last = "cursor"
    /\ search_mode
    /\ filtered_tags # None
    /\ Len(tags) >= 4
    /\ selected = << Len(tags) - 1 >>


\* C37: in every state of the event loop a filtered subset is present iff
\* the search query is not empty, so the quit key's test of the query is a
\* test of whether a filter is applied.
C37_FilterIffQuery ==
    pc = "run_app" => ((filtered_tags # None) <=> (search_query # << >>))

\* back in Normal mode with a query that no root matches: the filter is
\* present and holds no root
C37_Witness ==
    /\ ~search_mode
    /\ search_query # << >>
    /\ filtered_tags = << << >> >>
    /\ tags = << >>


\* C38: should_quit changes only from false to true, and only on a quit
\* key handled in Normal mode with an empty query; no event handled in
\* Searching mode changes it, and once it is true no event is handled, so
\* it stays true.
C38_QuitOnlyByQuitKey ==
    /\ [][should_quit' # should_quit =>
             /\ ~should_quit /\ should_quit'
             /\ ~search_mode
             /\ search_query = << >>
             /\ NormalQuit]_vars
    /\ [][search_mode => should_quit' = should_quit]_vars
    /\ [][should_quit => UNCHANGED vars]_vars

\* the App has quit from Normal mode with the cursor on an expanded row
\* below the first
C38_Witness ==
    /\ should_quit
    /\ last = "quit_key"
    /\ ~search_mode
    /\ search_query = << >>
    /\ selected # None /\ selected[1] > 0
    /\ tags[selected[1] + 1].is_expanded


\* the path of the parent of the node at a path below root level
ParentPath(p) == SubSeq(p, 1, Len(p) - 1)

\* C39: the node a collapse closes is the direct parent of the selected
\* node: with the cursor on a node below root level, the parent is shown
\* and expanded, it is the nearest row above the cursor with a smaller
\* depth, it is the one node whose expanded flag changes, and the cursor
\* lands on its row.
C39_CollapsesDirectParent ==
    [][( /\ NormalLeft
         /\ selected # None
         /\ tags[selected[1] + 1].depth > 0 )
       => \A old \in { active_tags } : \A new \in { active_of(filtered_tags', all_tags') } :
          \A parent \in { ParentPath(PathOfRow(old, selected[1])) } :
          \A row \in { RowOf(old, parent) } :
             /\ NodeAt(old, parent).is_expanded
             /\ row < selected[1]
             /\ \A k \in (row + 1)..(selected[1] - 1) :
                   tags[k + 1].depth >= tags[selected[1] + 1].depth
             /\ AllPaths(new) = AllPaths(old)
             /\ \A q \in AllPaths(old) :
                   NodeAt(new, q).is_expanded
                      = (q # parent /\ NodeAt(old, q).is_expanded)
             /\ selected' = << row >>]_vars

\* with no filter, a collapse has closed a node of depth 1 at the third row
\* or below and left the root above it expanded
C39_Witness ==
    /\ last = "left"
    /\ filtered_tags = None
    /\ selected # None
    /\ selected[1] >= 2
    /\ tags[selected[1] + 1].depth = 1
    /\ tags[selected[1] + 1].is_expandable
    /\ ~tags[selected[1] + 1].is_expanded
    /\ \E j \in 0..(selected[1] - 1) :
          /\ tags[j + 1].depth = 0
          /\ tags[j + 1].is_expanded
          /\ \A k \in (j + 1)..selected[1] : tags[k + 1].depth > 0


\* C40: what is expanded or collapsed while a filter is present stays in
\* the filtered copy.  A query edit that leaves a filter makes every
\* retained root an exact copy, flags included, of a root of the unfiltered
\* forest; the unfiltered forest is the same after the step that applies a
\* filter, after every step taken under a filter and after the step that
\* removes it, so it then has the flags it had when the filter was applied;
\* and the view after the removal is the projection of that forest.
C40_ExpansionStaysInFilteredCopy ==
    [][/\ (last' \in { "search_char", "search_backspace" } /\ filtered_tags' # None)
          => \A k \in 1..Len(filtered_tags'[1]) :
                \E i \in 1..Len(all_tags) : filtered_tags'[1][k] = all_tags[i]
       /\ (filtered_tags # None \/ filtered_tags' # None)
          => all_tags' = all_tags
       /\ (filtered_tags # None /\ filtered_tags' = None)
          => IsPreOrderViewOf(tags', all_tags)]_vars

\* the search prompt is open over a filter whose copy holds an expanded
\* root that is collapsed in the unfiltered forest, while the unfiltered
\* forest holds an expanded root of its own: the next key edits the query
\* or cancels the search
C40_Witness ==
    /\ search_mode
    /\ last = "slash"
    /\ Len(search_query) = 1
    /\ filtered_tags # None
    /\ \E k \in 1..Len(filtered_tags[1]) : \E i \in 1..Len(all_tags) :
          /\ filtered_tags[1][k].tag = all_tags[i].tag
          /\ filtered_tags[1][k].is_expanded
          /\ ~all_tags[i].is_expanded
    /\ \E i \in 1..Len(all_tags) : all_tags[i].is_expanded

=============================================================================
